---- MODULE Spec2Model ----
(***************************************************************************)
(* Model of the target-independent compiler pipeline of orc                *)
(* (orc/orccompiler.c): the driver orc_program_compile_full and the passes *)
(* check_sizes, assign_rules, rewrite_vars, global_reg_alloc and           *)
(* rewrite_vars2, together with the register allocator.                    *)
(***************************************************************************)
EXTENDS Integers, Sequences, FiniteSets, TLC

VARIABLES program,      \* the OrcProgram handed to the driver
          target,       \* the OrcTarget argument (TargetNull for NULL)
          flag_backup,  \* _orc_compiler_flag_backup
          compiler,     \* the OrcCompiler context of this compilation
          pc,           \* position of the driver
          j,            \* loop index of rewrite_vars / rewrite_vars2
          ret,          \* value returned by the driver
          steps,        \* history: the steps run so far, with the error flag each left
          overflow,     \* history: which allocation requests found no register
          orig          \* history: the program as it was handed to the driver

vars == <<program, target, flag_backup, compiler, pc, j, ret, steps, overflow, orig>>

-----------------------------------------------------------------------------
(* Bounds of the model *)

MaxInsns == 3

\* registers of each pool that a target of the allocator's own specification may declare
AllocWindow == 2

\* instructions of the programs that redefine Temps with the Temp slots in use
MaxRedefInsns == 3

\* calls of get_constant on one context
MaxCalls == 2

-----------------------------------------------------------------------------
(* Program constants *)

ORC_N_REGS == 32 * 4
ORC_GP_REG_BASE == 32
ORC_VEC_REG_BASE == 64
ORC_STATIC_OPCODE_N_SRC == 4
ORC_STATIC_OPCODE_N_DEST == 2

ORC_VAR_D1 == 0
ORC_VAR_S1 == 4
ORC_VAR_C1 == 12
ORC_VAR_P1 == 20
ORC_VAR_T1 == 28
ORC_VAR_T8 == 35
\* the variable table holds the slots D1..T8 of the enumeration
ORC_N_VARIABLES == ORC_VAR_T8 + 1

NULL == "NULL"

ORC_COMPILE_RESULT_OK == "OK"
ORC_COMPILE_RESULT_UNKNOWN_COMPILE == "UNKNOWN_COMPILE"
ORC_COMPILE_RESULT_UNKNOWN_PARSE == "UNKNOWN_PARSE"

ORC_VAR_TYPE_TEMP == "TEMP"
ORC_VAR_TYPE_SRC == "SRC"
ORC_VAR_TYPE_DEST == "DEST"
ORC_VAR_TYPE_CONST == "CONST"
ORC_VAR_TYPE_PARAM == "PARAM"
ORC_VAR_TYPE_ACCUMULATOR == "ACCUMULATOR"

ORC_STATIC_OPCODE_ACCUMULATOR == "ACCUMULATOR"
ORC_STATIC_OPCODE_SCALAR == "SCALAR"

orc_executor_emulate == "orc_executor_emulate"

\* a C array (0-based) from a tuple
Arr(s) == [i \in 0..(Len(s) - 1) |-> s[i + 1]]

Min(S) == CHOOSE x \in S : \A y \in S : x <= y

-----------------------------------------------------------------------------
(* Data model *)

\* OrcStaticOpcode descriptors used by the programs of the model
OrcStaticOpcode ==
  [ copyw |-> [dest_size |-> Arr(<<2, 0>>), src_size |-> Arr(<<2, 0, 0, 0>>), flags |-> {}],
    copyb |-> [dest_size |-> Arr(<<1, 0>>), src_size |-> Arr(<<1, 0, 0, 0>>), flags |-> {}],
    addw  |-> [dest_size |-> Arr(<<2, 0>>), src_size |-> Arr(<<2, 2, 0, 0>>), flags |-> {}],
    mulw  |-> [dest_size |-> Arr(<<2, 0>>), src_size |-> Arr(<<2, 2, 0, 0>>),
               flags |-> {ORC_STATIC_OPCODE_SCALAR}],
    accw  |-> [dest_size |-> Arr(<<2, 0>>), src_size |-> Arr(<<2, 0, 0, 0>>),
               flags |-> {ORC_STATIC_OPCODE_ACCUMULATOR}] ]

\* struct _OrcVariable, zero-initialised except for name, size and vartype
OrcVariable(name, size, vartype) ==
  [name |-> name, size |-> size, vartype |-> vartype,
   used |-> FALSE, first_use |-> 0, last_use |-> 0,
   replaced |-> FALSE, replacement |-> 0,
   alloc |-> 0, ptr_register |-> 0, ptr_offset |-> 0,
   mask_alloc |-> 0, aligned_data |-> 0, load_dest |-> FALSE]

\* struct _OrcInstruction; unused argument slots are zero
OrcInstruction(opcode, d0, s0, s1) ==
  [opcode |-> opcode, dest_args |-> Arr(<<d0, 0>>),
   src_args |-> Arr(<<s0, s1, 0, 0>>), rule |-> NULL]

\* the OrcCompiler after memset (compiler, 0, sizeof(OrcCompiler))
OrcCompiler ==
  [insns |-> << >>, n_insns |-> 0,
   vars |-> [i \in 0..(ORC_N_VARIABLES - 1) |-> OrcVariable(NULL, 0, ORC_VAR_TYPE_TEMP)],
   n_temp_vars |-> 0, n_dup_vars |-> 0,
   error |-> FALSE, result |-> ORC_COMPILE_RESULT_OK,
   valid_regs |-> [r \in 0..(ORC_N_REGS - 1) |-> 0],
   save_regs |-> [r \in 0..(ORC_N_REGS - 1) |-> 0],
   used_regs |-> [r \in 0..(ORC_N_REGS - 1) |-> 0],
   alloc_regs |-> [r \in 0..(ORC_N_REGS - 1) |-> 0],
   need_mask_regs |-> FALSE, alloc_loop_counter |-> FALSE, loop_counter |-> 0,
   asm_code |-> NULL, codeptr |-> 0,
   n_constants |-> 0, constants |-> << >>, tmpreg |-> 0]

\* ORC_COMPILER_ERROR: latch the error flag
ORC_COMPILER_ERROR(c) == [c EXCEPT !.error = TRUE]

-----------------------------------------------------------------------------
(* Register allocator *)

\* the register the scan looks at in iteration i (roff is 0)
ScanReg(offset, i) == offset + (i % 32)

\* the allocator with a first scan that forgets to look at save_regs
orc_compiler_allocate_register_NoSave(c, data_reg) ==
  LET offset == IF data_reg THEN target.data_register_offset ELSE ORC_GP_REG_BASE
      pass1 == {i \in 0..31 : /\ c.valid_regs[ScanReg(offset, i)] # 0
                              /\ c.alloc_regs[ScanReg(offset, i)] = 0}
      take(reg) == [c |-> [c EXCEPT !.alloc_regs[reg] = @ + 1, !.used_regs[reg] = 1],
                    reg |-> reg]
  IN  IF pass1 # {} THEN take(ScanReg(offset, Min(pass1)))
      ELSE [c |-> [ORC_COMPILER_ERROR(c) EXCEPT
                     !.result = ORC_COMPILE_RESULT_UNKNOWN_COMPILE],
            reg |-> 0]

\* the allocator with a fallback scan that forgets to look at valid_regs
orc_compiler_allocate_register_IgnoreValid(c, data_reg) ==
  LET offset == IF data_reg THEN target.data_register_offset ELSE ORC_GP_REG_BASE
      pass1 == {i \in 0..31 : /\ c.valid_regs[ScanReg(offset, i)] # 0
                              /\ c.save_regs[ScanReg(offset, i)] = 0
                              /\ c.alloc_regs[ScanReg(offset, i)] = 0}
      pass2 == {i \in 0..31 : c.alloc_regs[ScanReg(offset, i)] = 0}
      take(reg) == [c |-> [c EXCEPT !.alloc_regs[reg] = @ + 1, !.used_regs[reg] = 1],
                    reg |-> reg]
  IN  IF pass1 # {} THEN take(ScanReg(offset, Min(pass1)))
      ELSE IF pass2 # {} THEN take(ScanReg(offset, Min(pass2)))
      ELSE [c |-> [ORC_COMPILER_ERROR(c) EXCEPT
                     !.result = ORC_COMPILE_RESULT_UNKNOWN_COMPILE],
            reg |-> 0]

orc_compiler_allocate_register(c, data_reg) ==
  LET offset == IF data_reg THEN target.data_register_offset ELSE ORC_GP_REG_BASE
      pass1 == {i \in 0..31 : /\ c.valid_regs[ScanReg(offset, i)] # 0
                              /\ c.save_regs[ScanReg(offset, i)] = 0
                              /\ c.alloc_regs[ScanReg(offset, i)] = 0}
      pass2 == {i \in 0..31 : /\ c.valid_regs[ScanReg(offset, i)] # 0
                              /\ c.alloc_regs[ScanReg(offset, i)] = 0}
      take(reg) == [c |-> [c EXCEPT !.alloc_regs[reg] = @ + 1, !.used_regs[reg] = 1],
                    reg |-> reg]
  IN  IF pass1 # {} THEN take(ScanReg(offset, Min(pass1)))
      ELSE IF pass2 # {} THEN take(ScanReg(offset, Min(pass2)))
      ELSE [c |-> [ORC_COMPILER_ERROR(c) EXCEPT
                     !.result = ORC_COMPILE_RESULT_UNKNOWN_COMPILE],
            reg |-> 0]

-----------------------------------------------------------------------------
(* Validator *)

IsConstOrParam(v) == v.vartype = ORC_VAR_TYPE_PARAM \/ v.vartype = ORC_VAR_TYPE_CONST

\* the conditions under which check_sizes reports instruction i
DestSizeMismatch(c, i, k) ==
  LET opcode == OrcStaticOpcode[c.insns[i].opcode]
  IN  /\ opcode.dest_size[k] # 0
      /\ opcode.dest_size[k] # c.vars[c.insns[i].dest_args[k]].size

\* the source test without the exemption of Const and Param
SrcSizeMismatch_NoExemption(c, i, k) ==
  LET opcode == OrcStaticOpcode[c.insns[i].opcode]
      v == c.vars[c.insns[i].src_args[k]]
  IN  /\ opcode.src_size[k] # 0
      /\ opcode.src_size[k] # v.size

SrcSizeMismatch(c, i, k) ==
  LET opcode == OrcStaticOpcode[c.insns[i].opcode]
      v == c.vars[c.insns[i].src_args[k]]
  IN  /\ opcode.src_size[k] # 0
      /\ opcode.src_size[k] # v.size
      /\ ~IsConstOrParam(v)

ScalarViolation(c, i, k) ==
  LET opcode == OrcStaticOpcode[c.insns[i].opcode]
      v == c.vars[c.insns[i].src_args[k]]
  IN  /\ opcode.src_size[k] # 0
      /\ ORC_STATIC_OPCODE_SCALAR \in opcode.flags
      /\ k >= 1
      /\ ~IsConstOrParam(v)

\* every report of check_sizes has the same effect (error, unknown_parse, return)
orc_compiler_check_sizes(c) ==
  IF \E i \in 0..(c.n_insns - 1) :
        \/ \E k \in 0..(ORC_STATIC_OPCODE_N_DEST - 1) : DestSizeMismatch(c, i, k)
        \/ \E k \in 0..(ORC_STATIC_OPCODE_N_SRC - 1) :
              SrcSizeMismatch(c, i, k) \/ ScalarViolation(c, i, k)
  THEN [ORC_COMPILER_ERROR(c) EXCEPT !.result = ORC_COMPILE_RESULT_UNKNOWN_PARSE]
  ELSE c

-----------------------------------------------------------------------------
(* Rule binder *)

\* orc_target_get_rule: "emit" for a rule with an emit function,
\* "noemit" for a rule without one, NULL for no rule
orc_target_get_rule(opcode) == target.rules[opcode]

NoRule(rule) == rule = NULL \/ rule = "noemit"

orc_compiler_assign_rules(c) ==
  LET bad == {i \in 0..(c.n_insns - 1) : NoRule(orc_target_get_rule(c.insns[i].opcode))}
      last == IF bad = {} THEN c.n_insns - 1 ELSE Min(bad)
      c1 == [c EXCEPT !.insns = [i \in DOMAIN c.insns |->
                         IF i <= last
                         THEN [c.insns[i] EXCEPT !.rule = orc_target_get_rule(c.insns[i].opcode)]
                         ELSE c.insns[i]]]
  IN  IF bad = {} THEN c1
      ELSE [ORC_COMPILER_ERROR(c1) EXCEPT !.result = ORC_COMPILE_RESULT_UNKNOWN_COMPILE]

-----------------------------------------------------------------------------
(* Duplicate-temporary factory *)

\* the duplicate named after the count of duplicates instead of the instruction
orc_compiler_dup_temporary_CountName(c, var, jj) ==
  LET i == ORC_VAR_T1 + c.n_temp_vars + c.n_dup_vars
  IN  [c |-> [c EXCEPT !.vars[i].vartype = ORC_VAR_TYPE_TEMP,
                       !.vars[i].size = c.vars[var].size,
                       !.vars[i].name = c.vars[var].name \o ".dup" \o ToString(c.n_dup_vars),
                       !.n_dup_vars = @ + 1],
       i |-> i]

orc_compiler_dup_temporary(c, var, jj) ==
  LET i == ORC_VAR_T1 + c.n_temp_vars + c.n_dup_vars
  IN  [c |-> [c EXCEPT !.vars[i].vartype = ORC_VAR_TYPE_TEMP,
                       !.vars[i].size = c.vars[var].size,
                       !.vars[i].name = c.vars[var].name \o ".dup" \o ToString(jj),
                       !.n_dup_vars = @ + 1],
       i |-> i]

-----------------------------------------------------------------------------
(* Constant pool *)

\* an int by its 32 bits: the high and the low half, each in 0..65535
Int32(hi, lo) == [hi |-> hi, lo |-> lo]

\* bitwise and / or of the low n bits of the naturals a and b
RECURSIVE BitAnd(_, _, _)
BitAnd(a, b, n) ==
  IF n = 0 THEN 0
  ELSE (IF a % 2 = 1 /\ b % 2 = 1 THEN 1 ELSE 0) + 2 * BitAnd(a \div 2, b \div 2, n - 1)

RECURSIVE BitOr(_, _, _)
BitOr(a, b, n) ==
  IF n = 0 THEN 0
  ELSE (IF a % 2 = 1 \/ b % 2 = 1 THEN 1 ELSE 0) + 2 * BitOr(a \div 2, b \div 2, n - 1)

\* the operators &, | and << (by n <= 16) on int; a shift that leaves the
\* range of int keeps the low 32 bits, as the two's complement shift
\* instruction does
And32(a, b) == Int32(BitAnd(a.hi, b.hi, 16), BitAnd(a.lo, b.lo, 16))
Or32(a, b) == Int32(BitOr(a.hi, b.hi, 16), BitOr(a.lo, b.lo, 16))
Shl32(a, n) ==
  LET keep == 2^(16 - n)
  IN  Int32((a.hi % keep) * 2^n + a.lo \div keep, (a.lo % keep) * 2^n)

\* orc_compiler_load_constant: the call of the target's load_constant hook,
\* and the record of no such call
orc_compiler_load_constant(reg, size, value) ==
  [called |-> TRUE, reg |-> reg, size |-> size, value |-> value]
NoLoad == [called |-> FALSE, reg |-> 0, size |-> 0, value |-> Int32(0, 0)]

\* the canonicalization without the replication of the low byte
CanonicalValue_NoByteSplat(size, value) ==
  LET w == And32(value, Int32(0, 65535))
  IN  IF size < 4 THEN Or32(w, Shl32(w, 16)) ELSE value

\* the value orc_compiler_get_constant looks up for (size, value)
CanonicalValue(size, value) ==
  LET b == And32(value, Int32(0, 255))
      v1 == IF size < 2 THEN Or32(b, Shl32(b, 8)) ELSE value
      w == And32(v1, Int32(0, 65535))
  IN  IF size < 4 THEN Or32(w, Shl32(w, 16)) ELSE value

\* the call with a pool that appends an entry every time
orc_compiler_get_constant_NoSearch(c, size, value) ==
  LET v == CanonicalValue(size, value)
      i == c.n_constants
      c1 == [c EXCEPT !.n_constants = @ + 1,
                      !.constants = [x \in 0..c.n_constants |->
                                       IF x < c.n_constants THEN c.constants[x]
                                       ELSE [value |-> v, alloc_reg |-> 0, use_count |-> 0]]]
      c2 == [c1 EXCEPT !.constants[i].use_count = @ + 1]
  IN  IF c2.constants[i].alloc_reg # 0
      THEN [c |-> c2, i |-> i, reg |-> c2.constants[i].alloc_reg, load |-> NoLoad]
      ELSE [c |-> c2, i |-> i, reg |-> c2.tmpreg,
            load |-> orc_compiler_load_constant(c2.tmpreg, size, v)]

\* orc_compiler_get_constant: the context it leaves, the entry i it used,
\* the register it returns and the call of the load_constant hook, if any
orc_compiler_get_constant(c, size, value) ==
  LET v == CanonicalValue(size, value)
      hits == {x \in 0..(c.n_constants - 1) : c.constants[x].value = v}
      i == IF hits = {} THEN c.n_constants ELSE Min(hits)
      c1 == IF i = c.n_constants
            THEN [c EXCEPT !.n_constants = @ + 1,
                           !.constants = [x \in 0..c.n_constants |->
                                            IF x < c.n_constants THEN c.constants[x]
                                            ELSE [value |-> v, alloc_reg |-> 0, use_count |-> 0]]]
            ELSE c
      c2 == [c1 EXCEPT !.constants[i].use_count = @ + 1]
  IN  IF c2.constants[i].alloc_reg # 0
      THEN [c |-> c2, i |-> i, reg |-> c2.constants[i].alloc_reg, load |-> NoLoad]
      ELSE [c |-> c2, i |-> i, reg |-> c2.tmpreg,
            load |-> orc_compiler_load_constant(c2.tmpreg, size, v)]

-----------------------------------------------------------------------------
(* Liveness and Temp renaming *)

\* the source loop without the rewrite of the slot to the replacement
RewriteSrcArg_NoRedirect(c, jj, k) ==
  LET opcode == OrcStaticOpcode[c.insns[jj].opcode]
      var == c.insns[jj].src_args[k]
      c1 == IF c.vars[var].vartype = ORC_VAR_TYPE_DEST
            THEN [c EXCEPT !.vars[var].load_dest = TRUE] ELSE c
      actual_var == IF c1.vars[var].replaced THEN c1.vars[var].replacement ELSE var
      c3 == IF ~c1.vars[var].used
            THEN LET c2e == IF c1.vars[var].vartype = ORC_VAR_TYPE_TEMP
                            THEN [ORC_COMPILER_ERROR(c1) EXCEPT
                                    !.result = ORC_COMPILE_RESULT_UNKNOWN_PARSE]
                            ELSE c1
                 IN  [c2e EXCEPT !.vars[var].used = TRUE, !.vars[var].first_use = jj]
            ELSE c1
  IN  IF opcode.src_size[k] = 0 THEN c
      ELSE [c3 EXCEPT !.vars[actual_var].last_use = jj]

\* the source loop with last_use recorded on the variable of the slot
\* instead of its replacement
RewriteSrcArg_LastUseOnVar(c, jj, k) ==
  LET opcode == OrcStaticOpcode[c.insns[jj].opcode]
      var == c.insns[jj].src_args[k]
      c1 == IF c.vars[var].vartype = ORC_VAR_TYPE_DEST
            THEN [c EXCEPT !.vars[var].load_dest = TRUE] ELSE c
      actual_var == IF c1.vars[var].replaced THEN c1.vars[var].replacement ELSE var
      c2 == IF c1.vars[var].replaced
            THEN [c1 EXCEPT !.insns[jj].src_args[k] = actual_var] ELSE c1
      c3 == IF ~c2.vars[var].used
            THEN LET c2e == IF c2.vars[var].vartype = ORC_VAR_TYPE_TEMP
                            THEN [ORC_COMPILER_ERROR(c2) EXCEPT
                                    !.result = ORC_COMPILE_RESULT_UNKNOWN_PARSE]
                            ELSE c2
                 IN  [c2e EXCEPT !.vars[var].used = TRUE, !.vars[var].first_use = jj]
            ELSE c2
  IN  IF opcode.src_size[k] = 0 THEN c
      ELSE [c3 EXCEPT !.vars[var].last_use = jj]

\* the body of the "set up args" loop for source slot k of instruction jj
RewriteSrcArg(c, jj, k) ==
  LET opcode == OrcStaticOpcode[c.insns[jj].opcode]
      var == c.insns[jj].src_args[k]
      c1 == IF c.vars[var].vartype = ORC_VAR_TYPE_DEST
            THEN [c EXCEPT !.vars[var].load_dest = TRUE] ELSE c
      actual_var == IF c1.vars[var].replaced THEN c1.vars[var].replacement ELSE var
      c2 == IF c1.vars[var].replaced
            THEN [c1 EXCEPT !.insns[jj].src_args[k] = actual_var] ELSE c1
      c3 == IF ~c2.vars[var].used
            THEN LET c2e == IF c2.vars[var].vartype = ORC_VAR_TYPE_TEMP
                            THEN [ORC_COMPILER_ERROR(c2) EXCEPT
                                    !.result = ORC_COMPILE_RESULT_UNKNOWN_PARSE]
                            ELSE c2
                 IN  [c2e EXCEPT !.vars[var].used = TRUE, !.vars[var].first_use = jj]
            ELSE c2
  IN  IF opcode.src_size[k] = 0 THEN c
      ELSE [c3 EXCEPT !.vars[actual_var].last_use = jj]

\* the kind checks without the Accumulator checks
BadDestKind_NoAccumulatorCheck(vartype, flags) ==
  \/ vartype = ORC_VAR_TYPE_SRC
  \/ vartype = ORC_VAR_TYPE_CONST
  \/ vartype = ORC_VAR_TYPE_PARAM

\* the kind checks on a destination variable
BadDestKind(vartype, flags) ==
  \/ vartype = ORC_VAR_TYPE_SRC
  \/ vartype = ORC_VAR_TYPE_CONST
  \/ vartype = ORC_VAR_TYPE_PARAM
  \/ IF ORC_STATIC_OPCODE_ACCUMULATOR \in flags
     THEN vartype # ORC_VAR_TYPE_ACCUMULATOR
     ELSE vartype = ORC_VAR_TYPE_ACCUMULATOR

\* the body of the loop for destination slot k of instruction jj
RewriteDestArg(c, jj, k) ==
  LET opcode == OrcStaticOpcode[c.insns[jj].opcode]
      var == c.insns[jj].dest_args[k]
      c1 == IF BadDestKind(c.vars[var].vartype, opcode.flags)
            THEN [ORC_COMPILER_ERROR(c) EXCEPT !.result = ORC_COMPILE_RESULT_UNKNOWN_PARSE]
            ELSE c
      actual_var == IF c1.vars[var].replaced THEN c1.vars[var].replacement ELSE var
      c2 == IF c1.vars[var].replaced
            THEN [c1 EXCEPT !.insns[jj].dest_args[k] = actual_var] ELSE c1
      dup == orc_compiler_dup_temporary(c2, var, jj)
  IN  IF opcode.dest_size[k] = 0 THEN c
      ELSE IF ~c2.vars[var].used
      THEN [c2 EXCEPT !.vars[actual_var].used = TRUE,
                      !.vars[actual_var].first_use = jj,
                      !.vars[actual_var].last_use = jj]
      ELSE IF c2.vars[var].vartype = ORC_VAR_TYPE_TEMP
      THEN [dup.c EXCEPT !.vars[var].replaced = TRUE,
                         !.vars[var].replacement = dup.i,
                         !.insns[jj].dest_args[k] = dup.i,
                         !.vars[dup.i].used = TRUE,
                         !.vars[dup.i].first_use = jj,
                         !.vars[dup.i].last_use = jj]
      ELSE [c2 EXCEPT !.vars[actual_var].last_use = jj]

RECURSIVE RewriteSrcArgs(_, _, _)
RewriteSrcArgs(c, jj, k) ==
  IF k = ORC_STATIC_OPCODE_N_SRC THEN c
  ELSE RewriteSrcArgs(RewriteSrcArg(c, jj, k), jj, k + 1)

RECURSIVE RewriteDestArgs(_, _, _)
RewriteDestArgs(c, jj, k) ==
  IF k = ORC_STATIC_OPCODE_N_DEST THEN c
  ELSE RewriteDestArgs(RewriteDestArg(c, jj, k), jj, k + 1)

\* one iteration of the loop over the instructions in orc_compiler_rewrite_vars
orc_compiler_rewrite_vars(c, jj) == RewriteDestArgs(RewriteSrcArgs(c, jj, 0), jj, 0)

-----------------------------------------------------------------------------
(* Global allocator *)

\* the switch with a Src case that forgets ptr_offset
GlobalAllocVar_NoPtrOffset(c, i) ==
  LET vt == c.vars[i].vartype
      a1 == orc_compiler_allocate_register(c, TRUE)
      g1 == orc_compiler_allocate_register(c, FALSE)
      m1 == orc_compiler_allocate_register(g1.c, TRUE)
      m3 == orc_compiler_allocate_register(m1.c, TRUE)
  IN  IF vt \in {ORC_VAR_TYPE_CONST, ORC_VAR_TYPE_PARAM, ORC_VAR_TYPE_ACCUMULATOR}
      THEN [a1.c EXCEPT !.vars[i].first_use = -1, !.vars[i].last_use = -1,
                        !.vars[i].alloc = a1.reg]
      ELSE IF vt = ORC_VAR_TYPE_SRC
      THEN IF c.need_mask_regs
           THEN [m3.c EXCEPT !.vars[i].ptr_register = g1.reg,
                             !.vars[i].mask_alloc = m1.reg,
                             !.vars[i].aligned_data = m3.reg]
           ELSE [g1.c EXCEPT !.vars[i].ptr_register = g1.reg]
      ELSE IF vt = ORC_VAR_TYPE_DEST
      THEN [g1.c EXCEPT !.vars[i].ptr_register = g1.reg]
      ELSE IF vt = ORC_VAR_TYPE_TEMP
      THEN c
      ELSE [ORC_COMPILER_ERROR(c) EXCEPT !.result = ORC_COMPILE_RESULT_UNKNOWN_PARSE]

\* the switch on the kind of variable i
GlobalAllocVar(c, i) ==
  LET vt == c.vars[i].vartype
      a1 == orc_compiler_allocate_register(c, TRUE)
      g1 == orc_compiler_allocate_register(c, FALSE)
      m1 == orc_compiler_allocate_register(g1.c, TRUE)
      m2 == orc_compiler_allocate_register(m1.c, FALSE)
      m3 == orc_compiler_allocate_register(m2.c, TRUE)
  IN  IF vt \in {ORC_VAR_TYPE_CONST, ORC_VAR_TYPE_PARAM, ORC_VAR_TYPE_ACCUMULATOR}
      THEN [a1.c EXCEPT !.vars[i].first_use = -1, !.vars[i].last_use = -1,
                        !.vars[i].alloc = a1.reg]
      ELSE IF vt = ORC_VAR_TYPE_SRC
      THEN IF c.need_mask_regs
           THEN [m3.c EXCEPT !.vars[i].ptr_register = g1.reg,
                             !.vars[i].mask_alloc = m1.reg,
                             !.vars[i].ptr_offset = m2.reg,
                             !.vars[i].aligned_data = m3.reg]
           ELSE [g1.c EXCEPT !.vars[i].ptr_register = g1.reg]
      ELSE IF vt = ORC_VAR_TYPE_DEST
      THEN [g1.c EXCEPT !.vars[i].ptr_register = g1.reg]
      ELSE IF vt = ORC_VAR_TYPE_TEMP
      THEN c
      ELSE [ORC_COMPILER_ERROR(c) EXCEPT !.result = ORC_COMPILE_RESULT_UNKNOWN_PARSE]

\* the loop over the variables without the break on error
RECURSIVE GlobalAllocVars_NoBreak(_, _)
GlobalAllocVars_NoBreak(c, i) ==
  IF i = ORC_N_VARIABLES THEN c
  ELSE IF c.vars[i].name = NULL THEN GlobalAllocVars_NoBreak(c, i + 1)
  ELSE GlobalAllocVars_NoBreak(GlobalAllocVar(c, i), i + 1)

RECURSIVE GlobalAllocVars(_, _)
GlobalAllocVars(c, i) ==
  IF i = ORC_N_VARIABLES THEN c
  ELSE IF c.vars[i].name = NULL THEN GlobalAllocVars(c, i + 1)
  ELSE LET c1 == GlobalAllocVar(c, i)
       IN  IF c1.error THEN c1 ELSE GlobalAllocVars(c1, i + 1)

\* the loop counter request made, and forgiven, whatever the error flag says
GlobalAllocLoopCounter_ForgiveAll(c) ==
  LET a == orc_compiler_allocate_register(c, FALSE)
      c1 == [a.c EXCEPT !.loop_counter = a.reg]
  IN  IF c.alloc_loop_counter
      THEN IF c1.loop_counter = 0
           THEN [c1 EXCEPT !.error = FALSE, !.result = ORC_COMPILE_RESULT_OK]
           ELSE c1
      ELSE c

\* the loop counter request and the fallback when it finds no register
GlobalAllocLoopCounter(c) ==
  LET a == orc_compiler_allocate_register(c, FALSE)
      c1 == [a.c EXCEPT !.loop_counter = a.reg]
  IN  IF c.alloc_loop_counter /\ ~c.error
      THEN IF c1.loop_counter = 0
           THEN [c1 EXCEPT !.error = FALSE, !.result = ORC_COMPILE_RESULT_OK]
           ELSE c1
      ELSE c

orc_compiler_global_reg_alloc(c) == GlobalAllocLoopCounter(GlobalAllocVars(c, 0))

-----------------------------------------------------------------------------
(* Local allocator *)

\* chaining of src1 to dest at instruction jj
ChainSrc1(c, jj) ==
  LET opcode == OrcStaticOpcode[c.insns[jj].opcode]
      src1 == c.insns[jj].src_args[0]
      dest == c.insns[jj].dest_args[0]
      a == orc_compiler_allocate_register(c, TRUE)
      c1 == IF c.vars[src1].first_use = jj
            THEN [a.c EXCEPT !.vars[src1].alloc = a.reg] ELSE c
      c2 == [c1 EXCEPT !.alloc_regs[c1.vars[src1].alloc] = @ + 1]
  IN  IF /\ ORC_STATIC_OPCODE_ACCUMULATOR \notin opcode.flags
         /\ opcode.dest_size[1] = 0
         /\ c.vars[src1].last_use = jj
      THEN [c2 EXCEPT !.vars[dest].alloc = c2.vars[src1].alloc]
      ELSE c

\* an alloc of 1 on src2 marks an immediate operand
ClearImmediate(c, jj) ==
  LET src2 == c.insns[jj].src_args[1]
  IN  IF c.vars[src2].alloc = 1 THEN [c EXCEPT !.vars[src2].alloc = 0] ELSE c

RECURSIVE AllocBirths(_, _, _)
AllocBirths(c, jj, i) ==
  IF i = ORC_N_VARIABLES THEN c
  ELSE IF c.vars[i].name = NULL THEN AllocBirths(c, jj, i + 1)
  ELSE IF c.vars[i].first_use = jj /\ c.vars[i].alloc = 0
  THEN LET a == orc_compiler_allocate_register(c, TRUE)
       IN  AllocBirths([a.c EXCEPT !.vars[i].alloc = a.reg], jj, i + 1)
  ELSE AllocBirths(c, jj, i + 1)

RECURSIVE FreeDeaths(_, _, _)
FreeDeaths(c, jj, i) ==
  IF i = ORC_N_VARIABLES THEN c
  ELSE IF c.vars[i].name = NULL THEN FreeDeaths(c, jj, i + 1)
  ELSE IF c.vars[i].last_use = jj
  THEN FreeDeaths([c EXCEPT !.alloc_regs[c.vars[i].alloc] = @ - 1], jj, i + 1)
  ELSE FreeDeaths(c, jj, i + 1)

\* one iteration of the loop over the instructions in orc_compiler_rewrite_vars2
orc_compiler_rewrite_vars2(c, jj) ==
  FreeDeaths(AllocBirths(ClearImmediate(ChainSrc1(c, jj), jj), jj, 0), jj, 0)

-----------------------------------------------------------------------------
(* Inputs: programs, targets, environment *)

\* slot of the accumulator variable of the model's programs (the slot after D1)
VAR_A1 == ORC_VAR_D1 + 1
VAR_S2 == ORC_VAR_S1 + 1
VAR_T2 == ORC_VAR_T1 + 1

\* the variables a program of the model may add
ProgramVariables ==
  (ORC_VAR_D1 :> OrcVariable("d1", 2, ORC_VAR_TYPE_DEST)) @@
  (VAR_A1     :> OrcVariable("a1", 2, ORC_VAR_TYPE_ACCUMULATOR)) @@
  (ORC_VAR_S1 :> OrcVariable("s1", 2, ORC_VAR_TYPE_SRC)) @@
  (VAR_S2     :> OrcVariable("s2", 1, ORC_VAR_TYPE_SRC)) @@
  (ORC_VAR_C1 :> OrcVariable("c1", 2, ORC_VAR_TYPE_CONST)) @@
  (ORC_VAR_P1 :> OrcVariable("p1", 4, ORC_VAR_TYPE_PARAM)) @@
  (ORC_VAR_T1 :> OrcVariable("t1", 2, ORC_VAR_TYPE_TEMP)) @@
  (VAR_T2     :> OrcVariable("t2", 2, ORC_VAR_TYPE_TEMP))

\* the instructions the programs of the model are made of
InsnPool ==
  { OrcInstruction("copyw", ORC_VAR_T1, ORC_VAR_S1, 0),
    OrcInstruction("addw",  ORC_VAR_T1, ORC_VAR_T1, ORC_VAR_S1),
    OrcInstruction("copyw", ORC_VAR_D1, ORC_VAR_T1, 0),
    OrcInstruction("copyw", ORC_VAR_D1, ORC_VAR_S1, 0),
    OrcInstruction("addw",  ORC_VAR_D1, ORC_VAR_D1, ORC_VAR_C1),
    OrcInstruction("addw",  VAR_T2,     ORC_VAR_T1, ORC_VAR_P1),
    OrcInstruction("accw",  VAR_A1,     ORC_VAR_S1, 0),
    OrcInstruction("copyw", ORC_VAR_D1, VAR_S2, 0) }

\* instructions with errors, and three without, for the programs
\* that exercise the validator and the kind checks
ParsePool ==
  { OrcInstruction("copyw", ORC_VAR_D1, ORC_VAR_S1, 0),
    OrcInstruction("mulw",  ORC_VAR_D1, ORC_VAR_S1, ORC_VAR_C1),
    OrcInstruction("copyb", ORC_VAR_D1, VAR_S2, 0),
    OrcInstruction("copyw", ORC_VAR_D1, VAR_S2, 0),
    OrcInstruction("mulw",  ORC_VAR_D1, ORC_VAR_S1, ORC_VAR_S1),
    OrcInstruction("copyw", ORC_VAR_S1, ORC_VAR_S1, 0),
    OrcInstruction("copyw", ORC_VAR_C1, ORC_VAR_S1, 0),
    OrcInstruction("copyw", ORC_VAR_P1, ORC_VAR_S1, 0),
    OrcInstruction("copyw", ORC_VAR_D1, ORC_VAR_T1, 0),
    OrcInstruction("accw",  ORC_VAR_D1, ORC_VAR_S1, 0),
    OrcInstruction("copyw", VAR_A1,     ORC_VAR_S1, 0),
    OrcInstruction("addw",  ORC_VAR_T1, ORC_VAR_S1, ORC_VAR_P1) }

\* the slots instruction insn refers to in slots of non-zero declared size
InsnSlots(insn) ==
  LET opcode == OrcStaticOpcode[insn.opcode]
  IN  {insn.dest_args[k] : k \in {k \in 0..(ORC_STATIC_OPCODE_N_DEST - 1) : opcode.dest_size[k] # 0}}
      \cup
      {insn.src_args[k] : k \in {k \in 0..(ORC_STATIC_OPCODE_N_SRC - 1) : opcode.src_size[k] # 0}}

\* a program as the construction API leaves it: the variables its
\* instructions use are in the table, temporaries are added in order
Program(insns, backup_func) ==
  LET n == Cardinality(DOMAIN insns)
      refd == UNION {InsnSlots(insns[i]) : i \in DOMAIN insns}
      named == refd \cup (IF VAR_T2 \in refd THEN {ORC_VAR_T1} ELSE {})
  IN  [name |-> "prog", insns |-> insns, n_insns |-> n,
       vars |-> [i \in 0..(ORC_N_VARIABLES - 1) |->
                   IF i \in named THEN ProgramVariables[i]
                   ELSE OrcVariable(NULL, 0, ORC_VAR_TYPE_TEMP)],
       n_temp_vars |-> Cardinality(named \cap {ORC_VAR_T1, VAR_T2}),
       backup_func |-> backup_func,
       code |-> NULL, code_size |-> 0, asm_code |-> NULL]

AllRules == [op \in DOMAIN OrcStaticOpcode |-> "emit"]

\* an OrcTarget: the registers its compiler_init hook makes valid and marks
\* callee-saved, the flags it sets, and its rules
Target(name, nvec, ngp, save, mask, loop, rules) ==
  [name |-> name, data_register_offset |-> ORC_VEC_REG_BASE,
   valid |-> (ORC_VEC_REG_BASE..(ORC_VEC_REG_BASE + nvec - 1)) \cup
             (ORC_GP_REG_BASE..(ORC_GP_REG_BASE + ngp - 1)),
   save |-> save, need_mask_regs |-> mask, alloc_loop_counter |-> loop,
   rules |-> rules]

\* the null target: it has no field to read
TargetNull == [name |-> NULL]

Targets ==
  { Target("big",     4, 6, {ORC_GP_REG_BASE, ORC_VEC_REG_BASE}, FALSE, TRUE, AllRules),
    Target("mask",    4, 6, {}, TRUE, FALSE, AllRules),
    Target("onevec",  1, 6, {}, FALSE, FALSE, AllRules),
    Target("twogp",   4, 2, {ORC_GP_REG_BASE}, FALSE, TRUE, AllRules),
    Target("onegp",   2, 1, {}, FALSE, TRUE, AllRules),
    Target("norule",  4, 6, {}, FALSE, FALSE,
           [AllRules EXCEPT !["addw"] = NULL, !["accw"] = "noemit"]),
    TargetNull }

InsnLists(pool, max) == UNION {[0..(n - 1) -> pool] : n \in 1..max}

-----------------------------------------------------------------------------
(* Backend hooks *)

\* the target's compiler_init hook: declares the registers of the ISA
compiler_init(c) ==
  [c EXCEPT !.valid_regs = [r \in 0..(ORC_N_REGS - 1) |->
                              IF r \in target.valid THEN 1 ELSE @[r]],
            !.save_regs = [r \in 0..(ORC_N_REGS - 1) |->
                              IF r \in target.save THEN 1 ELSE @[r]],
            !.need_mask_regs = target.need_mask_regs,
            !.alloc_loop_counter = target.alloc_loop_counter]

-----------------------------------------------------------------------------
(* The driver orc_program_compile_full *)

\* the environment of a compilation: the target argument, whether the
\* program has a backup function, and the ORC_CODE=backup flag
Env(t, backup_func, flag) == [target |-> t, backup_func |-> backup_func, flag_backup |-> flag]

TargetNamed(name) == CHOOSE t \in Targets : t.name = name

Envs ==
  {Env(t, NULL, FALSE) : t \in Targets}
  \cup {Env(TargetNamed(n), "backup_func", FALSE) : n \in {"big", "onevec", NULL}}
  \cup {Env(TargetNamed(n), b, TRUE) : n \in {"big", NULL}, b \in {NULL, "backup_func"}}

EnvsParse == {Env(TargetNamed(n), NULL, FALSE) : n \in {"big", "norule"}}

InitWith(lists, envs) ==
  /\ \E insns \in lists, env \in envs :
        /\ program = Program(insns, env.backup_func)
        /\ target = env.target
        /\ flag_backup = env.flag_backup
  /\ compiler = OrcCompiler
  /\ pc = "start"
  /\ j = 0
  /\ ret = NULL
  /\ steps = << >>
  /\ overflow = {}
  /\ orig = program

Init == InitWith(InsnLists(InsnPool, MaxInsns), Envs)

\* programs with parse errors, for a target with all rules and one without
InitParse == InitWith(InsnLists(ParsePool, MaxInsns), EnvsParse)

Step(name, c) == Append(steps, [step |-> name, error |-> c.error])

\* the default of program->code
DefaultCode(p) ==
  IF p.backup_func # NULL THEN p.backup_func ELSE orc_executor_emulate

\* the context after the program was copied into it and the registers 0..31
\* were marked valid
CopyProgram(c, p) ==
  [c EXCEPT !.insns = p.insns, !.n_insns = p.n_insns,
            !.vars = p.vars, !.n_temp_vars = p.n_temp_vars, !.n_dup_vars = 0,
            !.valid_regs = [r \in 0..(ORC_N_REGS - 1) |-> IF r < 32 THEN 1 ELSE @[r]]]

\* the entry of the driver with the copy of the program made before the target test
Start_CopyFirst ==
  /\ pc = "start"
  /\ program' = [program EXCEPT !.code = DefaultCode(program)]
  /\ IF program.backup_func # NULL /\ flag_backup
     THEN /\ compiler' = [ORC_COMPILER_ERROR(OrcCompiler) EXCEPT
                            !.result = ORC_COMPILE_RESULT_UNKNOWN_COMPILE]
          /\ pc' = "error"
     ELSE IF target.name = NULL
     THEN /\ compiler' = [ORC_COMPILER_ERROR(CopyProgram(OrcCompiler, program)) EXCEPT
                            !.result = ORC_COMPILE_RESULT_UNKNOWN_COMPILE]
          /\ pc' = "error"
     ELSE /\ compiler' = compiler_init(CopyProgram(OrcCompiler, program))
          /\ pc' = "check_sizes"
  /\ UNCHANGED <<target, flag_backup, j, ret, steps, overflow, orig>>

\* the entry of the driver with a disable test that forgets the backup function
Start_FlagOnly ==
  /\ pc = "start"
  /\ program' = [program EXCEPT !.code = DefaultCode(program)]
  /\ IF flag_backup
     THEN /\ compiler' = [ORC_COMPILER_ERROR(OrcCompiler) EXCEPT
                            !.result = ORC_COMPILE_RESULT_UNKNOWN_COMPILE]
          /\ pc' = "error"
     ELSE IF target.name = NULL
     THEN /\ compiler' = [ORC_COMPILER_ERROR(OrcCompiler) EXCEPT
                            !.result = ORC_COMPILE_RESULT_UNKNOWN_COMPILE]
          /\ pc' = "error"
     ELSE /\ compiler' = compiler_init(CopyProgram(OrcCompiler, program))
          /\ pc' = "check_sizes"
  /\ UNCHANGED <<target, flag_backup, j, ret, steps, overflow, orig>>

\* from the entry of the driver to the call of check_sizes
Start ==
  /\ pc = "start"
  /\ program' = [program EXCEPT !.code = DefaultCode(program)]
  /\ IF program.backup_func # NULL /\ flag_backup
     THEN /\ compiler' = [ORC_COMPILER_ERROR(OrcCompiler) EXCEPT
                            !.result = ORC_COMPILE_RESULT_UNKNOWN_COMPILE]
          /\ pc' = "error"
     ELSE IF target.name = NULL
     THEN /\ compiler' = [ORC_COMPILER_ERROR(OrcCompiler) EXCEPT
                            !.result = ORC_COMPILE_RESULT_UNKNOWN_COMPILE]
          /\ pc' = "error"
     ELSE /\ compiler' = compiler_init(CopyProgram(OrcCompiler, program))
          /\ pc' = "check_sizes"
  /\ UNCHANGED <<target, flag_backup, j, ret, steps, overflow, orig>>

CheckSizes ==
  /\ pc = "check_sizes"
  /\ compiler' = orc_compiler_check_sizes(compiler)
  /\ steps' = Step("check_sizes", compiler')
  /\ pc' = IF compiler'.error THEN "error" ELSE "assign_rules"
  /\ UNCHANGED <<program, target, flag_backup, j, ret, overflow, orig>>

AssignRules ==
  /\ pc = "assign_rules"
  /\ compiler' = orc_compiler_assign_rules(compiler)
  /\ steps' = Step("assign_rules", compiler')
  /\ pc' = IF compiler'.error THEN "error" ELSE "rewrite_vars"
  /\ j' = 0
  /\ UNCHANGED <<program, target, flag_backup, ret, overflow, orig>>

\* the pass working on the program's own instruction list
RewriteVarsInsn_InPlace ==
  /\ pc = "rewrite_vars"
  /\ j < compiler.n_insns
  /\ compiler' = orc_compiler_rewrite_vars(compiler, j)
  /\ program' = [program EXCEPT !.insns = compiler'.insns]
  /\ j' = j + 1
  /\ UNCHANGED <<target, flag_backup, pc, ret, steps, overflow, orig>>

\* the pass leaving the instructions alone once an error is latched
RewriteVarsInsn_SkipAfterError ==
  /\ pc = "rewrite_vars"
  /\ j < compiler.n_insns
  /\ compiler' = IF compiler.error THEN compiler ELSE orc_compiler_rewrite_vars(compiler, j)
  /\ j' = j + 1
  /\ UNCHANGED <<program, target, flag_backup, pc, ret, steps, overflow, orig>>

RewriteVarsInsn ==
  /\ pc = "rewrite_vars"
  /\ j < compiler.n_insns
  /\ compiler' = orc_compiler_rewrite_vars(compiler, j)
  /\ j' = j + 1
  /\ UNCHANGED <<program, target, flag_backup, pc, ret, steps, overflow, orig>>

\* the driver without the test of the error flag after rewrite_vars
RewriteVarsEnd_NoErrorTest ==
  /\ pc = "rewrite_vars"
  /\ j = compiler.n_insns
  /\ steps' = Step("rewrite_vars", compiler)
  /\ pc' = "global_reg_alloc"
  /\ UNCHANGED <<program, target, flag_backup, compiler, j, ret, overflow, orig>>

RewriteVarsEnd ==
  /\ pc = "rewrite_vars"
  /\ j = compiler.n_insns
  /\ steps' = Step("rewrite_vars", compiler)
  /\ pc' = IF compiler.error THEN "error" ELSE "global_reg_alloc"
  /\ UNCHANGED <<program, target, flag_backup, compiler, j, ret, overflow, orig>>

\* the driver does not look at the error flag after the global pass
GlobalRegAlloc ==
  /\ pc = "global_reg_alloc"
  /\ compiler' = orc_compiler_global_reg_alloc(compiler)
  /\ LET c1 == GlobalAllocVars(compiler, 0)
     IN  overflow' = overflow
            \cup (IF c1.error THEN {"variable"} ELSE {})
            \cup (IF c1.alloc_loop_counter /\ ~c1.error /\
                     orc_compiler_allocate_register(c1, FALSE).reg = 0
                  THEN {"loop_counter"} ELSE {})
  /\ steps' = Step("global_reg_alloc", compiler')
  /\ pc' = "rewrite_vars2"
  /\ j' = 0
  /\ UNCHANGED <<program, target, flag_backup, ret, orig>>

RewriteVars2Insn ==
  /\ pc = "rewrite_vars2"
  /\ j < compiler.n_insns
  /\ compiler' = orc_compiler_rewrite_vars2(compiler, j)
  /\ overflow' = overflow \cup
        (IF ~compiler.error /\ compiler'.error THEN {"local"} ELSE {})
  /\ j' = j + 1
  /\ UNCHANGED <<program, target, flag_backup, pc, ret, steps, orig>>

RewriteVars2End ==
  /\ pc = "rewrite_vars2"
  /\ j = compiler.n_insns
  /\ steps' = Step("rewrite_vars2", compiler)
  /\ pc' = IF compiler.error THEN "error" ELSE "allocate_codemem"
  /\ UNCHANGED <<program, target, flag_backup, compiler, j, ret, overflow, orig>>

\* orc_compiler_allocate_codemem: installs the code memory in the program
\* and points codeptr at its start, or fails
AllocateCodemem ==
  /\ pc = "allocate_codemem"
  /\ \E ok \in BOOLEAN :
        IF ok
        THEN /\ program' = [program EXCEPT !.code = "codemem"]
             /\ compiler' = [compiler EXCEPT !.codeptr = 0]
        ELSE /\ program' = program
             /\ compiler' = ORC_COMPILER_ERROR(compiler)
  /\ steps' = Step("allocate_codemem", compiler')
  /\ pc' = IF compiler'.error THEN "error" ELSE "compile"
  /\ UNCHANGED <<target, flag_backup, j, ret, overflow, orig>>

\* the target's compile hook: emits code and assembly text, or fails
Compile ==
  /\ pc = "compile"
  /\ \E ok \in BOOLEAN :
        compiler' = IF ok
                    THEN [compiler EXCEPT !.codeptr = @ + compiler.n_insns,
                                          !.asm_code = "asm"]
                    ELSE [ORC_COMPILER_ERROR(compiler) EXCEPT !.asm_code = "asm"]
  /\ steps' = Step("compile", compiler')
  /\ pc' = IF compiler'.error THEN "error" ELSE "success"
  /\ UNCHANGED <<program, target, flag_backup, j, ret, overflow, orig>>

\* the successful return of the driver
Success ==
  /\ pc = "success"
  /\ program' = [program EXCEPT !.asm_code = compiler.asm_code,
                                !.code_size = compiler.codeptr]
  /\ ret' = compiler.result
  /\ pc' = "done"
  /\ UNCHANGED <<target, flag_backup, compiler, j, steps, overflow, orig>>

\* the error label without the promotion of a zero result
Error_NoPromotion ==
  /\ pc = "error"
  /\ ret' = compiler.result
  /\ compiler' = [compiler EXCEPT !.asm_code = NULL]
  /\ pc' = "done"
  /\ UNCHANGED <<program, target, flag_backup, j, steps, overflow, orig>>

\* the error label of the driver
Error ==
  /\ pc = "error"
  /\ ret' = IF compiler.result = ORC_COMPILE_RESULT_OK
            THEN ORC_COMPILE_RESULT_UNKNOWN_COMPILE ELSE compiler.result
  /\ compiler' = [compiler EXCEPT !.asm_code = NULL]
  /\ pc' = "done"
  /\ UNCHANGED <<program, target, flag_backup, j, steps, overflow, orig>>

Next ==
  \/ Start
  \/ CheckSizes
  \/ AssignRules
  \/ RewriteVarsInsn
  \/ RewriteVarsEnd
  \/ GlobalRegAlloc
  \/ RewriteVars2Insn
  \/ RewriteVars2End
  \/ AllocateCodemem
  \/ Compile
  \/ Success
  \/ Error

Spec == Init /\ [][Next]_vars

SpecParse == InitParse /\ [][Next]_vars

-----------------------------------------------------------------------------
(* rewrite_vars called a second time on the context it produced *)

\* the whole of orc_compiler_rewrite_vars: the loop over the instructions from jj on
RECURSIVE RewriteVarsFrom(_, _)
RewriteVarsFrom(c, jj) ==
  IF jj >= c.n_insns THEN c
  ELSE RewriteVarsFrom(orc_compiler_rewrite_vars(c, jj), jj + 1)

\* the context the driver hands to rewrite_vars for program p
RenameInput(p) ==
  orc_compiler_assign_rules(
    orc_compiler_check_sizes(compiler_init(CopyProgram(OrcCompiler, p))))

\* the context rewrite_vars hands back for program p
RenameOutput(p) == RewriteVarsFrom(RenameInput(p), 0)

\* the driver at the call of rewrite_vars, for the programs that get there
InitTwice ==
  /\ \E insns \in InsnLists(InsnPool, MaxInsns) :
        program = [Program(insns, NULL) EXCEPT !.code = orc_executor_emulate]
  /\ target = TargetNamed("big")
  /\ flag_backup = FALSE
  /\ compiler = RenameInput(program)
  /\ ~compiler.error
  /\ pc = "rewrite_vars"
  /\ j = 0
  /\ ret = NULL
  /\ steps = <<[step |-> "check_sizes", error |-> FALSE],
               [step |-> "assign_rules", error |-> FALSE]>>
  /\ overflow = {}
  /\ orig = [program EXCEPT !.code = NULL]

\* a second call of rewrite_vars on the same context, after a first one
\* that latched no error
RewriteVarsAgain ==
  /\ pc = "rewrite_vars"
  /\ j = compiler.n_insns
  /\ ~compiler.error
  /\ pc' = "rewrite_vars_again"
  /\ j' = 0
  /\ UNCHANGED <<program, target, flag_backup, compiler, ret, steps, overflow, orig>>

RewriteVarsAgainInsn ==
  /\ pc = "rewrite_vars_again"
  /\ j < compiler.n_insns
  /\ compiler' = orc_compiler_rewrite_vars(compiler, j)
  /\ j' = j + 1
  /\ UNCHANGED <<program, target, flag_backup, pc, ret, steps, overflow, orig>>

NextTwice ==
  \/ RewriteVarsInsn
  \/ RewriteVarsAgain
  \/ RewriteVarsAgainInsn

SpecTwice == InitTwice /\ [][NextTwice]_vars

-----------------------------------------------------------------------------
(* The allocator called on its own *)

\* the registers a target of this specification may declare valid or callee-saved
PoolRegs ==
  (ORC_GP_REG_BASE..(ORC_GP_REG_BASE + AllocWindow - 1))
     \cup (ORC_VEC_REG_BASE..(ORC_VEC_REG_BASE + AllocWindow - 1))

\* a context as compiler_init leaves it, for a target that declares the
\* registers of valid usable and those of save callee-saved
InitAlloc ==
  /\ program = [Program(Arr(<<OrcInstruction("copyw", ORC_VAR_D1, ORC_VAR_S1, 0)>>), NULL)
                  EXCEPT !.code = orc_executor_emulate]
  /\ \E valid \in SUBSET PoolRegs, save \in SUBSET PoolRegs :
        /\ target = [TargetNamed("big") EXCEPT !.name = "pool", !.valid = valid, !.save = save]
        /\ compiler = compiler_init(CopyProgram(OrcCompiler, program))
  /\ flag_backup = FALSE
  /\ pc = "allocate_register"
  /\ j = 0
  /\ ret = [data_reg |-> FALSE, reg |-> -1]   \* no call yet
  /\ steps = << >>
  /\ overflow = {}
  /\ orig = [program EXCEPT !.code = NULL]

\* one call of orc_compiler_allocate_register; ret keeps the argument and
\* the value returned
AllocateRegister ==
  /\ pc = "allocate_register"
  /\ \E data_reg \in BOOLEAN :
        LET a == orc_compiler_allocate_register(compiler, data_reg)
        IN  /\ compiler' = a.c
            /\ ret' = [data_reg |-> data_reg, reg |-> a.reg]
  /\ UNCHANGED <<program, target, flag_backup, pc, j, steps, overflow, orig>>

NextAlloc == AllocateRegister

SpecAlloc == InitAlloc /\ [][NextAlloc]_vars

-----------------------------------------------------------------------------
(* rewrite_vars on programs that fill the Temp slots *)

\* the Temps T1..T8 as a program that declares them all names them
TempVariable(i) == OrcVariable("t" \o ToString(i - ORC_VAR_T1 + 1), 2, ORC_VAR_TYPE_TEMP)

\* instructions that write, read and write again the first Temp
DupPool ==
  { OrcInstruction("copyw", ORC_VAR_T1, ORC_VAR_S1, 0),
    OrcInstruction("addw",  ORC_VAR_T1, ORC_VAR_T1, ORC_VAR_S1),
    OrcInstruction("copyw", ORC_VAR_D1, ORC_VAR_T1, 0) }

\* a program that declares n Temps in the slots T1.. and is made of insns
TempProgram(n, insns) ==
  LET p == Program(insns, NULL)
  IN  [p EXCEPT !.vars = [i \in 0..(ORC_N_VARIABLES - 1) |->
                            IF i \in ORC_VAR_T1..(ORC_VAR_T1 + n - 1)
                            THEN TempVariable(i) ELSE p.vars[i]],
                !.n_temp_vars = n,
                !.code = orc_executor_emulate]

\* the slot the next call of orc_compiler_dup_temporary writes and returns
DupSlot(c) == ORC_VAR_T1 + c.n_temp_vars + c.n_dup_vars

\* destination slot k of instruction jj reaches the call of orc_compiler_dup_temporary
DupCalled(c, jj, k) ==
  LET var == c.insns[jj].dest_args[k]
  IN  /\ OrcStaticOpcode[c.insns[jj].opcode].dest_size[k] # 0
      /\ c.vars[var].used
      /\ c.vars[var].vartype = ORC_VAR_TYPE_TEMP

\* the destination loop of instruction jj from slot k on, c being the context
\* before slot k: whether a call of orc_compiler_dup_temporary writes past
\* the variable table, and the context and donor of that call
RECURSIVE DupOverflowFrom(_, _, _)
DupOverflowFrom(c, jj, k) ==
  IF k = ORC_STATIC_OPCODE_N_DEST THEN [over |-> FALSE, c |-> c, var |-> 0]
  ELSE IF DupCalled(c, jj, k) /\ DupSlot(c) >= ORC_N_VARIABLES
  THEN [over |-> TRUE, c |-> c, var |-> c.insns[jj].dest_args[k]]
  ELSE DupOverflowFrom(RewriteDestArg(c, jj, k), jj, k + 1)

DupOverflow(c, jj) == DupOverflowFrom(RewriteSrcArgs(c, jj, 0), jj, 0)

\* what the stores of orc_compiler_dup_temporary past the end of vars[] can
\* leave: the table itself is not written; the fields of the context that
\* lie behind it take any value, and n_dup_vars is incremented or is itself
\* one of the fields hit
DupOverflowOutcomes(c) ==
  {[c EXCEPT !.n_temp_vars = t, !.n_dup_vars = d, !.error = e] :
      t \in {c.n_temp_vars, 0}, d \in {c.n_dup_vars + 1, 0}, e \in {c.error, TRUE}}

\* the driver at the call of rewrite_vars, for programs that declare from
\* one to all of the eight Temps
InitDup ==
  /\ \E insns \in InsnLists(DupPool, MaxRedefInsns),
        n \in 1..(ORC_VAR_T8 - ORC_VAR_T1 + 1) :
        program = TempProgram(n, insns)
  /\ target = TargetNamed("big")
  /\ flag_backup = FALSE
  /\ compiler = RenameInput(program)
  /\ ~compiler.error
  /\ pc = "rewrite_vars"
  /\ j = 0
  /\ ret = -1   \* no duplicate yet
  /\ steps = <<[step |-> "check_sizes", error |-> FALSE],
               [step |-> "assign_rules", error |-> FALSE]>>
  /\ overflow = {}
  /\ orig = [program EXCEPT !.code = NULL]

\* an iteration of rewrite_vars whose duplicates, if any, are inside the table;
\* ret keeps the slot of the last duplicate
RewriteVarsInsnInTable ==
  /\ pc = "rewrite_vars"
  /\ j < compiler.n_insns
  /\ ~DupOverflow(compiler, j).over
  /\ compiler' = orc_compiler_rewrite_vars(compiler, j)
  /\ ret' = IF compiler'.n_dup_vars > compiler.n_dup_vars THEN DupSlot(compiler') - 1 ELSE ret
  /\ j' = j + 1
  /\ UNCHANGED <<program, target, flag_backup, pc, steps, overflow, orig>>

\* an iteration of rewrite_vars that calls orc_compiler_dup_temporary with
\* the table full: the slot returned is past the table and the behaviour of
\* the stores is undefined
DupTemporaryOverflow ==
  /\ pc = "rewrite_vars"
  /\ j < compiler.n_insns
  /\ LET o == DupOverflow(compiler, j)
     IN  /\ o.over
         /\ ret' = DupSlot(o.c)
         /\ compiler' \in DupOverflowOutcomes(o.c)
  /\ pc' = "undefined"
  /\ UNCHANGED <<program, target, flag_backup, j, steps, overflow, orig>>

NextDup ==
  \/ RewriteVarsInsnInTable
  \/ DupTemporaryOverflow

SpecDup == InitDup /\ [][NextDup]_vars

-----------------------------------------------------------------------------
(* The entry of the driver, with the call of the compiler_init hook as a step *)

\* from the entry of the driver to the call of the target's compiler_init hook
StartToHook ==
  /\ pc = "start"
  /\ program' = [program EXCEPT !.code = DefaultCode(program)]
  /\ IF program.backup_func # NULL /\ flag_backup
     THEN /\ compiler' = [ORC_COMPILER_ERROR(OrcCompiler) EXCEPT
                            !.result = ORC_COMPILE_RESULT_UNKNOWN_COMPILE]
          /\ pc' = "error"
     ELSE IF target.name = NULL
     THEN /\ compiler' = [ORC_COMPILER_ERROR(OrcCompiler) EXCEPT
                            !.result = ORC_COMPILE_RESULT_UNKNOWN_COMPILE]
          /\ pc' = "error"
     ELSE /\ compiler' = CopyProgram(OrcCompiler, program)
          /\ pc' = "compiler_init"
  /\ UNCHANGED <<target, flag_backup, j, ret, steps, overflow, orig>>

\* the hook runs and returns to the driver
CompilerInitHook ==
  /\ pc = "compiler_init"
  /\ compiler' = compiler_init(compiler)
  /\ pc' = "check_sizes"
  /\ UNCHANGED <<program, target, flag_backup, j, ret, steps, overflow, orig>>

NextInit ==
  \/ StartToHook
  \/ CompilerInitHook

SpecInit == Init /\ [][NextInit]_vars

-----------------------------------------------------------------------------
(* get_constant called by a backend while it emits code *)

\* the element sizes of the calls
ConstSizes == {1, 2, 4}

\* the values of the calls: a small one, one with the top bit of its low
\* byte and of its low half set and with high bits that the narrow sizes
\* drop, and the replications of its low byte and of its low half
ConstValues ==
  { Int32(0, 1), Int32(4660, 32897), Int32(33153, 33153), Int32(32897, 32897) }

\* the context of a compilation that reached the compile hook, with the
\* scratch register the backend chose
InitConst ==
  /\ program = [Program(Arr(<<OrcInstruction("copyw", ORC_VAR_D1, ORC_VAR_S1, 0)>>), NULL)
                  EXCEPT !.code = orc_executor_emulate]
  /\ target = TargetNamed("big")
  /\ \E tmpreg \in {ORC_GP_REG_BASE, ORC_VEC_REG_BASE} :
        compiler = [compiler_init(CopyProgram(OrcCompiler, program)) EXCEPT !.tmpreg = tmpreg]
  /\ flag_backup = FALSE
  /\ pc = "get_constant"
  /\ j = 0
  /\ ret = -1   \* no call yet
  /\ steps = << >>
  /\ overflow = {}
  /\ orig = [program EXCEPT !.code = NULL]

\* one call of orc_compiler_get_constant; steps keeps the arguments, the
\* entry used and the call of the load_constant hook, ret the register returned
GetConstant ==
  /\ pc = "get_constant"
  /\ Len(steps) < MaxCalls
  /\ \E size \in ConstSizes, value \in ConstValues :
        LET r == orc_compiler_get_constant(compiler, size, value)
        IN  /\ compiler' = r.c
            /\ ret' = r.reg
            /\ steps' = Append(steps, [step |-> "get_constant", size |-> size,
                                       value |-> value, i |-> r.i, load |-> r.load])
  /\ UNCHANGED <<program, target, flag_backup, pc, j, overflow, orig>>

\* the backend gives a pool entry a register of its own
AllocConstantReg ==
  /\ pc = "get_constant"
  /\ \E i \in 0..(compiler.n_constants - 1) :
        LET a == orc_compiler_allocate_register(compiler, TRUE)
        IN  /\ compiler.constants[i].alloc_reg = 0
            /\ a.reg # 0
            /\ compiler' = [a.c EXCEPT !.constants[i].alloc_reg = a.reg]
  /\ UNCHANGED <<program, target, flag_backup, pc, j, ret, steps, overflow, orig>>

NextConst ==
  \/ GetConstant
  \/ AllocConstantReg

SpecConst == InitConst /\ [][NextConst]_vars

-----------------------------------------------------------------------------
(* Vocabulary of the properties *)

Done == pc = "done"

\* ORC_COMPILE_RESULT_IS_SUCCESSFUL on the returned value
Failed == Done /\ ret # ORC_COMPILE_RESULT_OK

\* the driver got past the backup and target checks
Compiling(p) == ~(p.backup_func # NULL /\ flag_backup) /\ target.name # NULL

DriverOrder ==
  <<"check_sizes", "assign_rules", "rewrite_vars", "global_reg_alloc",
    "rewrite_vars2", "allocate_codemem", "compile">>

VarSlots == 0..(ORC_N_VARIABLES - 1)
Regs == 0..(ORC_N_REGS - 1)

-----------------------------------------------------------------------------
(* C1: whenever the driver returns a non-successful result, program->code  *)
(* is the backup function if the program has one, and the emulator entry   *)
(* point otherwise.  Stated as the claim states it; the compile hook       *)
(* failing after allocate_codemem installed the code memory refutes it.    *)
C1_FailureLeavesDefaultCode ==
  Failed => program.code = DefaultCode(program)

(* C2: the steps run in the order check_sizes, assign_rules, rewrite_vars, *)
(* global_reg_alloc, rewrite_vars2, allocate_codemem, compile, and no step *)
(* runs after a step that left the error flag set.  Stated as the claim    *)
(* states it; rewrite_vars2 running after a failed global pass refutes it. *)
C2_NoStepAfterError ==
  /\ Len(steps) <= Len(DriverOrder)
  /\ \A k \in 1..Len(steps) :
        /\ steps[k].step = DriverOrder[k]
        /\ steps[k].error => k = Len(steps)

-----------------------------------------------------------------------------
(* Parse errors of a program, read off the program as it was handed over *)

SizedDests(insn) ==
  {k \in 0..(ORC_STATIC_OPCODE_N_DEST - 1) : OrcStaticOpcode[insn.opcode].dest_size[k] # 0}
SizedSrcs(insn) ==
  {k \in 0..(ORC_STATIC_OPCODE_N_SRC - 1) : OrcStaticOpcode[insn.opcode].src_size[k] # 0}

\* a slot whose variable has not the declared size (Const and Param sources
\* do not constrain the size)
HasSizeMismatch(p) ==
  \E i \in 0..(p.n_insns - 1) :
     \/ \E k \in SizedDests(p.insns[i]) :
           p.vars[p.insns[i].dest_args[k]].size # OrcStaticOpcode[p.insns[i].opcode].dest_size[k]
     \/ \E k \in SizedSrcs(p.insns[i]) :
           /\ p.vars[p.insns[i].src_args[k]].size # OrcStaticOpcode[p.insns[i].opcode].src_size[k]
           /\ p.vars[p.insns[i].src_args[k]].vartype \notin {ORC_VAR_TYPE_CONST, ORC_VAR_TYPE_PARAM}

\* a Scalar-flagged opcode with a source other than the first that is
\* neither Const nor Param
HasScalarViolation(p) ==
  \E i \in 0..(p.n_insns - 1) :
     /\ ORC_STATIC_OPCODE_SCALAR \in OrcStaticOpcode[p.insns[i].opcode].flags
     /\ \E k \in SizedSrcs(p.insns[i]) :
           /\ k >= 1
           /\ p.vars[p.insns[i].src_args[k]].vartype \notin {ORC_VAR_TYPE_CONST, ORC_VAR_TYPE_PARAM}

\* a Src, Const or Param variable used as a destination
HasBadDest(p) ==
  \E i \in 0..(p.n_insns - 1) : \E k \in SizedDests(p.insns[i]) :
     p.vars[p.insns[i].dest_args[k]].vartype
        \in {ORC_VAR_TYPE_SRC, ORC_VAR_TYPE_CONST, ORC_VAR_TYPE_PARAM}

\* a Temp read by an instruction that no earlier instruction writes it
HasUninitializedTemp(p) ==
  \E i \in 0..(p.n_insns - 1) : \E k \in SizedSrcs(p.insns[i]) :
     /\ p.vars[p.insns[i].src_args[k]].vartype = ORC_VAR_TYPE_TEMP
     /\ ~\E i0 \in 0..(i - 1) : \E k0 \in SizedDests(p.insns[i0]) :
            p.insns[i0].dest_args[k0] = p.insns[i].src_args[k]

\* an Accumulator-flagged opcode writing a non-Accumulator variable, or the converse
HasAccumulatorMismatch(p) ==
  \E i \in 0..(p.n_insns - 1) : \E k \in SizedDests(p.insns[i]) :
     (ORC_STATIC_OPCODE_ACCUMULATOR \in OrcStaticOpcode[p.insns[i].opcode].flags)
        # (p.vars[p.insns[i].dest_args[k]].vartype = ORC_VAR_TYPE_ACCUMULATOR)

HasParseError(p) ==
  \/ HasSizeMismatch(p)
  \/ HasBadDest(p)
  \/ HasUninitializedTemp(p)
  \/ HasAccumulatorMismatch(p)

\* the target has a rule with an emit function for every instruction of p
HasAllRules(p) ==
  \A i \in 0..(p.n_insns - 1) : target.rules[p.insns[i].opcode] = "emit"

(* C3, as the claim states it: a program with a parse error, compiled with *)
(* a non-null target and compilation not disabled, returns unknown_parse   *)
(* whatever rules the target has.  A target without a rule for one of the  *)
(* opcodes refutes it: assign_rules runs before the kind checks.           *)
C3_ParseErrorAnyRuleSet ==
  (Done /\ Compiling(orig) /\ HasParseError(orig))
     => ret = ORC_COMPILE_RESULT_UNKNOWN_PARSE

(* C3, amended: such a program returns unknown_parse if check_sizes reports *)
(* it (size mismatch or Scalar violation) or if the target has a rule for   *)
(* every instruction; if check_sizes passes and some opcode has no rule,    *)
(* the driver returns unknown_compile.                                      *)
C3_ParseErrorUnlessNoRule ==
  (Done /\ Compiling(orig) /\ HasParseError(orig))
     => ret = IF HasSizeMismatch(orig) \/ HasScalarViolation(orig) \/ HasAllRules(orig)
              THEN ORC_COMPILE_RESULT_UNKNOWN_PARSE
              ELSE ORC_COMPILE_RESULT_UNKNOWN_COMPILE

\* a program whose only parse error is a kind error was rejected by rewrite_vars
C3_Witness ==
  /\ Done /\ Compiling(orig)
  /\ HasAccumulatorMismatch(orig) /\ ~HasSizeMismatch(orig) /\ ~HasScalarViolation(orig)
  /\ Len(steps) = 3 /\ steps[3].error
  /\ ret = ORC_COMPILE_RESULT_UNKNOWN_PARSE

-----------------------------------------------------------------------------
(* C4, as the claim states it: any allocation request of the global or the *)
(* local pass that finds no register makes the driver return               *)
(* unknown_compile, publish nothing and leave the default code.  The       *)
(* loop-counter request refutes it: its failure is forgiven.               *)
ExhaustionOutcome ==
  /\ ret = ORC_COMPILE_RESULT_UNKNOWN_COMPILE
  /\ program.asm_code = orig.asm_code
  /\ program.code_size = orig.code_size
  /\ program.code = DefaultCode(program)

C4_AnyExhaustionFails == (Done /\ overflow # {}) => ExhaustionOutcome

(* C4, amended: the same for every request other than the loop counter's:  *)
(* the requests for a variable in the global pass and all requests of the  *)
(* local pass.                                                             *)
C4_VariableExhaustionFails ==
  (Done /\ overflow \cap {"variable", "local"} # {}) => ExhaustionOutcome

\* the local pass ran out of registers after a global pass without failure
C4_Witness ==
  /\ Done /\ overflow = {"local"}
  /\ ret = ORC_COMPILE_RESULT_UNKNOWN_COMPILE

-----------------------------------------------------------------------------
(* C5: a compilation leaves the program's instruction list, variable       *)
(* table, n_insns and n_temp_vars as they were; only code, code_size and   *)
(* asm_code change, and code_size and asm_code only when it succeeds.      *)
C5_ProgramUntouched ==
  /\ program.insns = orig.insns
  /\ program.vars = orig.vars
  /\ program.n_insns = orig.n_insns
  /\ program.n_temp_vars = orig.n_temp_vars
  /\ program.name = orig.name
  /\ program.backup_func = orig.backup_func
  /\ (~(Done /\ ret = ORC_COMPILE_RESULT_OK)
        => program.code_size = orig.code_size /\ program.asm_code = orig.asm_code)

\* a compilation that renamed a temporary and allocated registers succeeded
C5_Witness ==
  /\ Done /\ ret = ORC_COMPILE_RESULT_OK
  /\ compiler.n_dup_vars > 0
  /\ compiler.insns # program.insns
  /\ compiler.vars # program.vars
  /\ program.code_size > 0 /\ program.asm_code # NULL

-----------------------------------------------------------------------------
(* Registers held for the whole program *)

Named(c) == {i \in VarSlots : c.vars[i].name # NULL}

GlobalKinds == {ORC_VAR_TYPE_CONST, ORC_VAR_TYPE_PARAM, ORC_VAR_TYPE_ACCUMULATOR}
PointerKinds == {ORC_VAR_TYPE_SRC, ORC_VAR_TYPE_DEST}

\* the registers the global pass assigned: the alloc of a Const, Param or
\* Accumulator, the pointer and mask registers of a Src or Dest, the loop counter
GlobalRegs(c) ==
  ({c.vars[i].alloc : i \in {i \in Named(c) : c.vars[i].vartype \in GlobalKinds}}
   \cup {c.vars[i].ptr_register : i \in {i \in Named(c) : c.vars[i].vartype \in PointerKinds}}
   \cup {c.vars[i].ptr_offset : i \in Named(c)}
   \cup {c.vars[i].mask_alloc : i \in Named(c)}
   \cup {c.vars[i].aligned_data : i \in Named(c)}
   \cup {c.loop_counter}) \ {0}

\* the local pass has processed the last instruction
LocalPassOver == pc = "rewrite_vars2" /\ j = compiler.n_insns

GlobalPassClean == "variable" \notin overflow

(* C6, as the claim states it: when the local pass is over, after a global *)
(* pass without error, alloc_regs[r] is 0 for every register.  The         *)
(* registers the global pass assigned are never released, which refutes it.*)
C6_PoolFullyReleased ==
  (LocalPassOver /\ GlobalPassClean) => \A r \in Regs : compiler.alloc_regs[r] = 0

-----------------------------------------------------------------------------
(* Renaming *)

\* rewrite_vars has run over all instructions without error
RenameOver == pc = "global_reg_alloc"

\* the instruction slots of the context that write slot v
DefPoints(c, v) ==
  {ik \in (0..(c.n_insns - 1)) \X (0..(ORC_STATIC_OPCODE_N_DEST - 1)) :
      /\ ik[2] \in SizedDests(c.insns[ik[1]])
      /\ c.insns[ik[1]].dest_args[ik[2]] = v}

\* the instructions of program p before i that write Temp slot v
EarlierDefs(p, v, i) ==
  {i0 \in 0..(i - 1) : \E k \in SizedDests(p.insns[i0]) : p.insns[i0].dest_args[k] = v}

\* the slots of the duplicates made so far
DupSlots(c) ==
  (ORC_VAR_T1 + c.n_temp_vars)..(ORC_VAR_T1 + c.n_temp_vars + c.n_dup_vars - 1)

IsTemp(p, v) == p.vars[v].vartype = ORC_VAR_TYPE_TEMP

-----------------------------------------------------------------------------
(* Liveness *)

\* the instructions of the context that refer to slot v
RefPoints(c, v) ==
  {i \in 0..(c.n_insns - 1) :
      \/ \E k \in SizedDests(c.insns[i]) : c.insns[i].dest_args[k] = v
      \/ \E k \in SizedSrcs(c.insns[i]) : c.insns[i].src_args[k] = v}

\* the global pass has returned with the error flag clear
GlobalPassOver == pc = "rewrite_vars2" /\ j = 0

(* C8: after rewrite_vars and global_reg_alloc without error, every named  *)
(* Const, Param and Accumulator has first_use = last_use = -1, and every   *)
(* other variable marked used has 0 <= first_use <= last_use < n_insns and *)
(* is referred to by no instruction before first_use or after last_use.    *)
C8_LiveRanges ==
  (GlobalPassOver /\ ~compiler.error) =>
    \A v \in VarSlots :
       LET x == compiler.vars[v]
       IN  IF x.name # NULL /\ x.vartype \in GlobalKinds
           THEN x.first_use = -1 /\ x.last_use = -1
           ELSE x.used =>
                  /\ 0 <= x.first_use /\ x.first_use <= x.last_use
                  /\ x.last_use < compiler.n_insns
                  /\ \A i \in RefPoints(compiler, v) : x.first_use <= i /\ i <= x.last_use

\* a duplicate lives over two instructions next to a used Const
C8_Witness ==
  /\ GlobalPassOver /\ ~compiler.error
  /\ \E d \in DupSlots(compiler) :
        compiler.vars[d].used /\ compiler.vars[d].first_use < compiler.vars[d].last_use
  /\ \E v \in VarSlots :
        compiler.vars[v].used /\ compiler.vars[v].vartype \in GlobalKinds

-----------------------------------------------------------------------------
(* Registers of the global pass *)

VecWindow == target.data_register_offset..(target.data_register_offset + 31)
GpWindow == ORC_GP_REG_BASE..(ORC_GP_REG_BASE + 31)

GlobalAssignment(c) ==
  \A v \in Named(c) :
     LET x == c.vars[v]
     IN  /\ x.vartype \in GlobalKinds => x.alloc \in VecWindow
         /\ x.vartype \in PointerKinds => x.ptr_register \in GpWindow
         /\ x.vartype = ORC_VAR_TYPE_SRC =>
               IF c.need_mask_regs
               THEN /\ x.mask_alloc \in VecWindow
                    /\ x.ptr_offset \in GpWindow
                    /\ x.aligned_data \in VecWindow
               ELSE x.mask_alloc = 0 /\ x.ptr_offset = 0 /\ x.aligned_data = 0
         /\ x.vartype = ORC_VAR_TYPE_TEMP =>
               /\ x.alloc = 0 /\ x.ptr_register = 0
               /\ x.mask_alloc = 0 /\ x.ptr_offset = 0 /\ x.aligned_data = 0

(* C9, as the claim states it: after global_reg_alloc returns, every named *)
(* Const, Param and Accumulator has a vector register in alloc, every      *)
(* named Src and Dest a GP register in ptr_register, a Src has mask_alloc, *)
(* ptr_offset and aligned_data exactly if need_mask_regs, and no Temp has  *)
(* a register.  A pass that ran out of registers refutes it.               *)
C9_GlobalAssignmentAlways == GlobalPassOver => GlobalAssignment(compiler)

(* C9, amended: the same after global_reg_alloc returns with the error     *)
(* flag clear.                                                             *)
C9_GlobalAssignmentNoError ==
  (GlobalPassOver /\ ~compiler.error) => GlobalAssignment(compiler)

\* the pass gave mask registers to a Src and a register to a Const
C9_Witness ==
  /\ GlobalPassOver /\ ~compiler.error /\ compiler.need_mask_regs
  /\ compiler.vars[ORC_VAR_S1].aligned_data # 0
  /\ compiler.vars[ORC_VAR_C1].alloc # 0
  /\ compiler.vars[ORC_VAR_T1].name # NULL

-----------------------------------------------------------------------------
(* C10: in every state of a compilation, every register number stored in   *)
(* a variable's alloc, mask_alloc or aligned_data lies in the vector        *)
(* window, every one stored in ptr_register, ptr_offset or loop_counter in  *)
(* the GP window, and each is marked valid and used (0 stands for no        *)
(* register).                                                               *)
RegOk(r, window) ==
  r # 0 => /\ r \in window
           /\ compiler.valid_regs[r] = 1
           /\ compiler.used_regs[r] = 1

C10_AssignedRegsValid ==
  /\ RegOk(compiler.loop_counter, GpWindow)
  /\ \A v \in VarSlots :
        /\ RegOk(compiler.vars[v].alloc, VecWindow)
        /\ RegOk(compiler.vars[v].mask_alloc, VecWindow)
        /\ RegOk(compiler.vars[v].aligned_data, VecWindow)
        /\ RegOk(compiler.vars[v].ptr_register, GpWindow)
        /\ RegOk(compiler.vars[v].ptr_offset, GpWindow)

\* the local pass gave a callee-saved register to a temporary, next to a
\* loop counter and pointer registers
C10_Witness ==
  /\ pc = "rewrite_vars2" /\ j > 0
  /\ compiler.loop_counter # 0
  /\ \E v \in VarSlots :
        /\ compiler.vars[v].vartype = ORC_VAR_TYPE_TEMP
        /\ compiler.vars[v].alloc # 0
        /\ compiler.save_regs[compiler.vars[v].alloc] = 1
  /\ \E v \in VarSlots : compiler.vars[v].ptr_register # 0

-----------------------------------------------------------------------------
(* Idempotence of renaming *)

SecondRun == pc = "rewrite_vars_again"

(* C11: a second run of rewrite_vars on the context the first run produced *)
(* changes no instruction slot, creates no duplicate temporary and latches *)
(* no error.  Stated as the claim states it; a Temp that is written is     *)
(* already marked used in the second run and is duplicated again.          *)
C11_RenameIdempotent ==
  SecondRun =>
     /\ compiler.insns = RenameOutput(orig).insns
     /\ compiler.n_dup_vars = RenameOutput(orig).n_dup_vars
     /\ ~compiler.error

-----------------------------------------------------------------------------
(* Compilation disabled *)

\* the program has a backup function and ORC_CODE=backup is set
Disabled == orig.backup_func # NULL /\ flag_backup

\* the context as the driver leaves it when it stops before copying the program
RefusedContext ==
  [ORC_COMPILER_ERROR(OrcCompiler) EXCEPT !.result = ORC_COMPILE_RESULT_UNKNOWN_COMPILE]

\* the driver has just left its entry section for check_sizes
AtFirstPass == pc = "check_sizes"

(* C12: with a backup function and the backup flag set, the driver returns *)
(* unknown_compile with program->code == backup_func, runs no pass and     *)
(* calls no target hook, whatever the target is; in every other case the   *)
(* flag has no part in what the entry section does: a null target is       *)
(* refused and any other target gets the program copied and its            *)
(* compiler_init hook called.                                              *)
C12_BackupDisables ==
  /\ Disabled =>
        /\ steps = << >>
        /\ pc \in {"start", "error", "done"}
        /\ pc # "start" => compiler = RefusedContext
        /\ Done => /\ ret = ORC_COMPILE_RESULT_UNKNOWN_COMPILE
                   /\ program.code = orig.backup_func
  /\ (~Disabled /\ pc # "start") =>
        IF target.name = NULL
        THEN steps = << >> /\ pc \in {"error", "done"} /\ compiler = RefusedContext
        ELSE /\ pc # "error" \/ steps # << >>
             /\ AtFirstPass => compiler = compiler_init(CopyProgram(OrcCompiler, orig))

\* a disabled compilation for a target that is not null has returned
C12_Witness ==
  /\ Done /\ Disabled /\ target.name # NULL
  /\ ret = ORC_COMPILE_RESULT_UNKNOWN_COMPILE
  /\ program.code = orig.backup_func

-----------------------------------------------------------------------------
(* Result of the driver *)

\* the steps after which the driver tests the error flag
CheckedSteps ==
  {"check_sizes", "assign_rules", "rewrite_vars", "rewrite_vars2",
   "allocate_codemem", "compile"}

\* the compile hook ran, and the error flag was clear after every checked step
RanToTheEnd ==
  /\ Len(steps) = Len(DriverOrder)
  /\ steps[Len(steps)].step = "compile"
  /\ \A k \in 1..Len(steps) : steps[k].step \in CheckedSteps => ~steps[k].error

\* the driver is at its error label
AtErrorLabel == pc = "error"

(* C13: a compilation that leaves through the error label returns a result *)
(* other than OK, and unknown_compile when the error flag was set without  *)
(* a result code recorded; the driver returns OK only if it ran the        *)
(* compile hook with the error flag clear after every checked step.        *)
C13_ErrorPathNeverOK ==
  /\ [][AtErrorLabel =>
          /\ ret' # ORC_COMPILE_RESULT_OK
          /\ compiler.result = ORC_COMPILE_RESULT_OK
                => ret' = ORC_COMPILE_RESULT_UNKNOWN_COMPILE
          /\ compiler.result # ORC_COMPILE_RESULT_OK => ret' = compiler.result]_vars
  /\ []((Done /\ ret = ORC_COMPILE_RESULT_OK) => RanToTheEnd)

\* the driver returned unknown_compile for an error that came with no result code
C13_Witness ==
  /\ Done /\ compiler.error
  /\ compiler.result = ORC_COMPILE_RESULT_OK
  /\ ret = ORC_COMPILE_RESULT_UNKNOWN_COMPILE

-----------------------------------------------------------------------------
(* The validator *)

\* check_sizes has run / has run and reported nothing
SizesChecked == Len(steps) >= 1
SizesPassed == SizesChecked /\ ~steps[1].error

\* the context check_sizes was handed
CheckSizesInput == compiler_init(CopyProgram(OrcCompiler, orig))

\* every sized slot of the context's instructions that refers to a variable
\* other than a Const or a Param has a variable of the declared size
SlotSizesAgree(c) ==
  \A i \in 0..(c.n_insns - 1) :
     /\ \A k \in SizedDests(c.insns[i]) :
           c.vars[c.insns[i].dest_args[k]].vartype \notin {ORC_VAR_TYPE_CONST, ORC_VAR_TYPE_PARAM}
              => c.vars[c.insns[i].dest_args[k]].size
                    = OrcStaticOpcode[c.insns[i].opcode].dest_size[k]
     /\ \A k \in SizedSrcs(c.insns[i]) :
           c.vars[c.insns[i].src_args[k]].vartype \notin {ORC_VAR_TYPE_CONST, ORC_VAR_TYPE_PARAM}
              => c.vars[c.insns[i].src_args[k]].size
                    = OrcStaticOpcode[c.insns[i].opcode].src_size[k]

(* C14: check_sizes latches the error with unknown_parse exactly when some *)
(* sized slot is a dest slot of another size, a src slot of another size   *)
(* whose variable is neither Const nor Param, or a src slot of index >= 1  *)
(* of a Scalar opcode whose variable is neither Const nor Param; otherwise *)
(* it leaves the context as it was.  After a passing check, renaming       *)
(* included, every sized slot that refers to a variable other than a Const *)
(* or Param has a variable of the declared size.                           *)
C14_CheckSizes ==
  /\ SizesChecked => (steps[1].error <=> (HasSizeMismatch(orig) \/ HasScalarViolation(orig)))
  /\ (Len(steps) = 1 /\ steps[1].error /\ ~Done) =>
        compiler = [CheckSizesInput EXCEPT !.error = TRUE,
                                           !.result = ORC_COMPILE_RESULT_UNKNOWN_PARSE]
  /\ (Len(steps) = 1 /\ ~steps[1].error) => compiler = CheckSizesInput
  /\ SizesPassed => SlotSizesAgree(compiler)

\* a program that reads a Param of another size passed the check and had a
\* Temp renamed
C14_Witness ==
  /\ SizesPassed /\ Len(steps) >= 3 /\ ~steps[3].error
  /\ compiler.n_dup_vars > 0
  /\ \E i \in 0..(compiler.n_insns - 1) : \E k \in SizedSrcs(compiler.insns[i]) :
        /\ compiler.vars[compiler.insns[i].src_args[k]].vartype = ORC_VAR_TYPE_PARAM
        /\ compiler.vars[compiler.insns[i].src_args[k]].size
              # OrcStaticOpcode[compiler.insns[i].opcode].src_size[k]
  /\ \E i \in 0..(compiler.n_insns - 1) :
        compiler.insns[i].dest_args[0] \in DupSlots(compiler)

-----------------------------------------------------------------------------
(* Null target *)

\* the target argument is null and compilation is not disabled
NoTarget == target = TargetNull /\ ~Disabled

(* C15: with a null target and compilation not disabled, the driver        *)
(* returns unknown_compile without copying the program into the context,   *)
(* without running a pass and without reading a field of the target, and   *)
(* program->code is the backup function if there is one, the emulator      *)
(* entry point otherwise.                                                  *)
C15_NullTarget ==
  NoTarget =>
     /\ steps = << >>
     /\ pc \in {"start", "error", "done"}
     /\ pc # "start" =>
           /\ compiler = RefusedContext
           /\ compiler.n_insns = 0
           /\ \A i \in VarSlots : compiler.vars[i].name = NULL
           /\ program.code = DefaultCode(orig)
     /\ Done => ret = ORC_COMPILE_RESULT_UNKNOWN_COMPILE

\* a compilation for the null target of a program with a backup function returned
C15_Witness ==
  /\ Done /\ NoTarget
  /\ orig.backup_func # NULL
  /\ ret = ORC_COMPILE_RESULT_UNKNOWN_COMPILE
  /\ program.code = orig.backup_func

-----------------------------------------------------------------------------
(* Register non-interference *)

\* both allocation passes are over and every request found a register
AllocationOver == LocalPassOver /\ overflow = {}

\* the variables the local pass gives a register: those with a live range
Ranged(c) == {i \in Named(c) : c.vars[i].used /\ c.vars[i].first_use >= 0}

\* the live ranges of v and w share an instruction index
Overlap(c, v, w) ==
  /\ c.vars[v].first_use <= c.vars[w].last_use
  /\ c.vars[w].first_use <= c.vars[v].last_use

\* d is the destination chained to s at the instruction where s has its last use
ChainedTo(c, d, s) ==
  \E i \in 0..(c.n_insns - 1) :
     /\ ORC_STATIC_OPCODE_ACCUMULATOR \notin OrcStaticOpcode[c.insns[i].opcode].flags
     /\ OrcStaticOpcode[c.insns[i].opcode].dest_size[1] = 0
     /\ c.insns[i].src_args[0] = s
     /\ c.insns[i].dest_args[0] = d
     /\ c.vars[s].last_use = i

\* (a): a register held for the whole program is the alloc of no other variable
GlobalRegsApart(c) ==
  /\ \A v \in Named(c), w \in Named(c) :
        (v # w /\ c.vars[w].vartype \in GlobalKinds /\ c.vars[v].alloc # 0)
           => c.vars[v].alloc # c.vars[w].alloc
  /\ \A v \in Named(c) :
        (c.vars[v].vartype \notin GlobalKinds /\ c.vars[v].alloc # 0)
           => c.vars[v].alloc \notin GlobalRegs(c)

\* (b): variables live at the same instruction have different registers,
\* chained pairs excepted
LiveRegsApart(c) ==
  \A v \in Ranged(c), w \in Ranged(c) :
     (v # w /\ Overlap(c, v, w) /\ ~ChainedTo(c, v, w) /\ ~ChainedTo(c, w, v))
        => c.vars[v].alloc # c.vars[w].alloc

(* C16: after the global and the local pass, with no request having failed, *)
(* a register held for the whole program is the alloc of no other variable, *)
(* and two variables whose live ranges share an instruction have different  *)
(* alloc values unless one is the destination chained to the other.  Stated *)
(* as the claim states it.                                                  *)
C16_NonInterference ==
  AllocationOver => GlobalRegsApart(compiler) /\ LiveRegsApart(compiler)

-----------------------------------------------------------------------------
(* Chaining *)

\* chaining fires at instruction jj
ChainFires(c, jj) ==
  /\ ORC_STATIC_OPCODE_ACCUMULATOR \notin OrcStaticOpcode[c.insns[jj].opcode].flags
  /\ OrcStaticOpcode[c.insns[jj].opcode].dest_size[1] = 0
  /\ c.vars[c.insns[jj].src_args[0]].last_use = jj

\* the local pass is about to process instruction j
AtLocalInsn == pc = "rewrite_vars2" /\ j < compiler.n_insns

\* the chaining step of instruction jj touches the alloc of src1, if src1 is
\* born at jj, and of dest, and nothing else of the variable table
ChainTouchesOnly(c, jj) ==
  LET src1 == c.insns[jj].src_args[0]
      dest == c.insns[jj].dest_args[0]
      after == ChainSrc1(c, jj)
  IN  /\ \A v \in VarSlots \ {src1, dest} : after.vars[v] = c.vars[v]
      /\ \A v \in {src1, dest} : [after.vars[v] EXCEPT !.alloc = 0] = [c.vars[v] EXCEPT !.alloc = 0]
      /\ (src1 # dest /\ c.vars[src1].first_use # jj) => after.vars[src1] = c.vars[src1]

(* C17: when chaining fires at instruction j, dest.alloc == src1.alloc     *)
(* once j has been processed, the chaining step changes the alloc of       *)
(* src1 (only if born at j) and of dest and of no other variable, the      *)
(* shared register stays counted while dest lives on, and once src1 and    *)
(* dest have both died its count is what it was before the two held it.    *)
(* Stated as the claim states it, the last part for a dest that dies at j  *)
(* too; a src1 that is also the dest leaves the register counted.          *)
C17_ChainingPreserved ==
  [][(AtLocalInsn /\ ~compiler.error /\ ChainFires(compiler, j)) =>
       LET src1 == compiler.insns[j].src_args[0]
           dest == compiler.insns[j].dest_args[0]
           reg == compiler'.vars[dest].alloc
           held == IF compiler.vars[src1].first_use < j THEN 1 ELSE 0
       IN  /\ compiler'.vars[dest].alloc = compiler'.vars[src1].alloc
           /\ ChainTouchesOnly(compiler, j)
           /\ (reg # 0 /\ compiler.vars[dest].last_use > j) => compiler'.alloc_regs[reg] > 0
           /\ (reg # 0 /\ compiler.vars[dest].last_use = j)
                 => compiler'.alloc_regs[reg] = compiler.alloc_regs[reg] - held]_vars

-----------------------------------------------------------------------------
(* Redefinition of a Temp *)

Max(S) == CHOOSE x \in S : \A y \in S : y <= x

\* instruction i of program p reads / writes / refers to slot v
Reads(p, v, i) == \E k \in SizedSrcs(p.insns[i]) : p.insns[i].src_args[k] = v
Writes(p, v, i) == \E k \in SizedDests(p.insns[i]) : p.insns[i].dest_args[k] = v
Uses(p, v, i) == Reads(p, v, i) \/ Writes(p, v, i)

\* the instructions of p that write Temp v when an earlier one wrote it already
Redefs(p, v) == {i \in 0..(p.n_insns - 1) : Writes(p, v, i) /\ EarlierDefs(p, v, i) # {}}

\* the Temps of program p that are redefined
RedefinedTemps(p) == {v \in VarSlots : IsTemp(p, v) /\ p.vars[v].name # NULL /\ Redefs(p, v) # {}}

\* the program copyw T1,S1; addw T1,T1,S1; copyw D1,T1
Scenario ==
  orig.insns = Arr(<<OrcInstruction("copyw", ORC_VAR_T1, ORC_VAR_S1, 0),
                     OrcInstruction("addw",  ORC_VAR_T1, ORC_VAR_T1, ORC_VAR_S1),
                     OrcInstruction("copyw", ORC_VAR_D1, ORC_VAR_T1, 0)>>)

\* what a redefinition at instruction i of Temp v leaves behind: a duplicate
\* born at i and named after i in the dest slot, read by the later
\* instructions up to and including the next redefinition
DuplicateAt(v, i) ==
  LET d == compiler.insns[i].dest_args[0]
      next == {i1 \in Redefs(orig, v) : i1 > i}
      upto == IF next = {} THEN orig.n_insns - 1 ELSE Min(next)
  IN  /\ d \in DupSlots(compiler)
      /\ compiler.vars[d].vartype = ORC_VAR_TYPE_TEMP
      /\ compiler.vars[d].first_use = i
      /\ compiler.vars[d].name = orig.vars[v].name \o ".dup" \o ToString(i)
      /\ \A i1 \in (i + 1)..upto : \A k \in SizedSrcs(orig.insns[i1]) :
            orig.insns[i1].src_args[k] = v => compiler.insns[i1].src_args[k] = d

\* the duplicate of the scenario: slot T1 + 1, born at 1, last used at 2
ScenarioDuplicate ==
  /\ compiler.vars[ORC_VAR_T1 + 1].first_use = 1
  /\ compiler.vars[ORC_VAR_T1 + 1].last_use = 2
  /\ compiler.vars[ORC_VAR_T1 + 1].name = orig.vars[ORC_VAR_T1].name \o ".dup1"
  /\ compiler.insns[1].dest_args[0] = ORC_VAR_T1 + 1
  /\ compiler.insns[2].src_args[0] = ORC_VAR_T1 + 1

(* C18, as the claim states it: a redefinition of Temp T at instruction j  *)
(* creates a duplicate with first_use == j, named T.dup<j>, which the dest *)
(* slot of j and the later reads of T refer to, and T's own last_use is    *)
(* the last instruction before the first redefinition that used T; in the  *)
(* scenario T1.last_use == 0, the duplicate has first_use 1, last_use 2.   *)
(* The redefining instruction reading T itself refutes it.                 *)
C18_LastUseBeforeRedefinition ==
  RenameOver =>
    /\ \A v \in RedefinedTemps(orig) :
          /\ \A i \in Redefs(orig, v) : DuplicateAt(v, i)
          /\ compiler.vars[v].last_use
                = Max({i \in 0..(Min(Redefs(orig, v)) - 1) : Uses(orig, v, i)})
    /\ Scenario => (compiler.vars[ORC_VAR_T1].last_use = 0 /\ ScenarioDuplicate)

(* C18, amended: the same, but T's own last_use is the last instruction    *)
(* that used T up to the first redefinition, the redefining instruction    *)
(* included if it reads T; in the scenario T1.last_use == 1.               *)
C18_LastUseAtRedefinition ==
  RenameOver =>
    /\ \A v \in RedefinedTemps(orig) :
          /\ \A i \in Redefs(orig, v) : DuplicateAt(v, i)
          /\ compiler.vars[v].last_use
                = Max({i \in 0..(Min(Redefs(orig, v)) - 1) : Uses(orig, v, i)}
                      \cup {i \in {Min(Redefs(orig, v))} : Reads(orig, v, i)})
    /\ Scenario => (compiler.vars[ORC_VAR_T1].last_use = 1 /\ ScenarioDuplicate)

\* the scenario has been renamed
C18_Witness ==
  /\ RenameOver /\ Scenario
  /\ compiler.n_dup_vars = 1
  /\ compiler.vars[ORC_VAR_T1].replaced
  /\ compiler.vars[ORC_VAR_T1].replacement = ORC_VAR_T1 + 1

-----------------------------------------------------------------------------
(* The allocator *)

\* the window of the pool a call asks for
WindowOf(data_reg) == IF data_reg THEN VecWindow ELSE GpWindow

\* the registers of window w that context c can hand out: free and valid,
\* and among them those that are not callee-saved
FreeRegs(c, w) == {r \in w : c.valid_regs[r] # 0 /\ c.alloc_regs[r] = 0}
ScratchRegs(c, w) == {r \in FreeRegs(c, w) : c.save_regs[r] = 0}

(* C19: orc_compiler_allocate_register returns the lowest register of the  *)
(* pool's window that is valid, not callee-saved and free; if there is     *)
(* none, the lowest that is valid and free; if there is none either, 0,    *)
(* with the error latched and result unknown_compile.  A successful call   *)
(* adds one to alloc[r], sets used[r] and changes nothing else.            *)
C19_LowestFreeRegister ==
  [][pc = "allocate_register" =>
       LET w == WindowOf(ret'.data_reg)
           scratch == ScratchRegs(compiler, w)
           free == FreeRegs(compiler, w)
       IN  /\ scratch # {} => ret'.reg = Min(scratch)
           /\ (scratch = {} /\ free # {}) => ret'.reg = Min(free)
           /\ free = {} => /\ ret'.reg = 0
                           /\ compiler'.error
                           /\ compiler'.result = ORC_COMPILE_RESULT_UNKNOWN_COMPILE
           /\ free # {} => compiler' = [compiler EXCEPT !.alloc_regs[ret'.reg] = @ + 1,
                                                         !.used_regs[ret'.reg] = 1]]_vars

\* a callee-saved register was handed out because no scratch register was free
C19_Witness ==
  /\ pc = "allocate_register"
  /\ ret.reg > 0
  /\ compiler.save_regs[ret.reg] = 1
  /\ compiler.alloc_regs[ret.reg] = 1
  /\ ScratchRegs(compiler, WindowOf(ret.data_reg)) = {}
  /\ \E r \in WindowOf(ret.data_reg) : r # ret.reg /\ compiler.alloc_regs[r] = 1

-----------------------------------------------------------------------------
(* Loop counter *)

\* variable v lacks a register the global pass assigns to its kind
Unserved(c, v) ==
  \/ c.vars[v].vartype \in GlobalKinds /\ c.vars[v].alloc = 0
  \/ c.vars[v].vartype \in PointerKinds /\ c.vars[v].ptr_register = 0
  \/ /\ c.vars[v].vartype = ORC_VAR_TYPE_SRC /\ c.need_mask_regs
     /\ (c.vars[v].mask_alloc = 0 \/ c.vars[v].ptr_offset = 0 \/ c.vars[v].aligned_data = 0)

\* the global pass has not visited variable v
Unvisited(c, v) ==
  /\ c.vars[v].alloc = 0 /\ c.vars[v].ptr_register = 0
  /\ c.vars[v].mask_alloc = 0 /\ c.vars[v].ptr_offset = 0 /\ c.vars[v].aligned_data = 0
  /\ c.vars[v].first_use >= 0

\* the loop over the variables stopped at the first one it could not serve
LoopStopped(c) ==
  \E f \in Named(c) :
     /\ Unserved(c, f)
     /\ \A v \in Named(c) : v < f => ~Unserved(c, v)
     /\ \A v \in Named(c) : v > f => Unvisited(c, v)

(* C20: the loop counter is requested exactly when the backend asked for   *)
(* one and no request for a variable failed; when that request finds no    *)
(* register the pass ends with error clear, result OK and loop_counter 0   *)
(* and the local pass runs with the error clear; when a request for a      *)
(* variable fails the error stays latched with unknown_compile and the     *)
(* variables after it are not visited.                                     *)
C20_LoopCounterForgiven ==
  /\ GlobalPassOver =>
        /\ compiler.loop_counter # 0 =>
              /\ compiler.alloc_loop_counter /\ "variable" \notin overflow
              /\ compiler.loop_counter \in GpWindow
        /\ (compiler.alloc_loop_counter /\ "variable" \notin overflow) =>
              (compiler.loop_counter # 0 \/ "loop_counter" \in overflow)
        /\ "loop_counter" \in overflow =>
              /\ ~compiler.error
              /\ compiler.result = ORC_COMPILE_RESULT_OK
              /\ compiler.loop_counter = 0
              /\ ~steps[Len(steps)].error
        /\ "variable" \in overflow =>
              /\ compiler.error
              /\ compiler.result = ORC_COMPILE_RESULT_UNKNOWN_COMPILE
              /\ compiler.loop_counter = 0
              /\ "loop_counter" \notin overflow
              /\ LoopStopped(compiler)
  /\ (pc = "rewrite_vars2" /\ overflow = {"loop_counter"}) => ~compiler.error

\* the local pass ran to its end after a loop counter request that found no register
C20_Witness ==
  /\ LocalPassOver
  /\ overflow = {"loop_counter"}
  /\ compiler.alloc_loop_counter /\ compiler.loop_counter = 0
  /\ ~compiler.error

-----------------------------------------------------------------------------
(* Slots of the duplicates *)

\* the instructions processed so far whose destination was rewritten
Renamed == {i \in 0..(j - 1) : compiler.insns[i].dest_args[0] # orig.insns[i].dest_args[0]}

\* the slots of the duplicates are slots of the table that the program left
\* empty, one per redefinition
DupSlotsFresh ==
  /\ \A i \in Renamed :
        /\ compiler.insns[i].dest_args[0] \in DupSlots(compiler)
        /\ \A i2 \in Renamed : i2 # i =>
              compiler.insns[i2].dest_args[0] # compiler.insns[i].dest_args[0]
  /\ \A d \in DupSlots(compiler) : d \in VarSlots /\ orig.vars[d].name = NULL

(* C21: every slot orc_compiler_dup_temporary returns is below the        *)
(* capacity of the variable table and is the slot of no variable of the   *)
(* program and of no earlier duplicate.                                   *)
C21_DupSlotInTable ==
  /\ ret # -1 => ret \in VarSlots
  /\ pc = "rewrite_vars" => DupSlotsFresh

-----------------------------------------------------------------------------
(* Registers at the call of compiler_init *)

AtHookCall == pc = "compiler_init"

(* C22: when the driver calls the compiler_init hook every register of    *)
(* 0..ORC_N_REGS-1 is valid, the GP and vector windows included, and no   *)
(* register is callee-saved, used or allocated.                           *)
C22_AllRegistersValid ==
  AtHookCall =>
     \A r \in Regs :
        /\ compiler.valid_regs[r] = 1
        /\ compiler.save_regs[r] = 0
        /\ compiler.used_regs[r] = 0
        /\ compiler.alloc_regs[r] = 0

-----------------------------------------------------------------------------
(* Errors latched by rewrite_vars, errors that end check_sizes and assign_rules *)

\* the pass rewrite_vars is running, or over, with an error latched
RenameFailing == pc = "rewrite_vars" /\ compiler.error

\* the marks rewrite_vars leaves for instruction i: the variable of every
\* sized slot is used and live at i, and a destination Temp that was used
\* before has a duplicate named after i in the slot
InsnProcessed(c, i) ==
  /\ \A k \in SizedSrcs(c.insns[i]) :
        LET v == c.insns[i].src_args[k]
        IN  c.vars[v].used /\ c.vars[v].first_use <= i /\ c.vars[v].last_use >= i
  /\ \A k \in SizedDests(c.insns[i]) :
        LET v == orig.insns[i].dest_args[k]
            d == c.insns[i].dest_args[k]
        IN  /\ c.vars[d].used /\ c.vars[d].first_use <= i /\ c.vars[d].last_use >= i
            /\ (IsTemp(orig, v) /\ (Reads(orig, v, i) \/ \E i0 \in 0..(i - 1) : Uses(orig, v, i0)))
                  => /\ d \in DupSlots(c)
                     /\ c.vars[d].first_use = i
                     /\ c.vars[d].name = orig.vars[v].name \o ".dup" \o ToString(i)

\* the step recorded last is step name and it ended with the error flag set
FailedAt(name) ==
  /\ steps # << >>
  /\ steps[Len(steps)].step = name
  /\ steps[Len(steps)].error

\* the instructions of the program for which the target has no rule to emit
Ruleless == {i \in 0..(orig.n_insns - 1) : NoRule(target.rules[orig.insns[i].opcode])}

(* C23: rewrite_vars goes on after an error: every later instruction is    *)
(* processed like the ones before it, the error flag stays set with the    *)
(* result unknown_parse to the end of the pass, and the driver then goes   *)
(* to its error label without calling global_reg_alloc; check_sizes and    *)
(* assign_rules end at their first error: no instruction after the first   *)
(* one without a rule has a rule bound, and nothing else of the context    *)
(* changes.                                                                *)
C23_RenameLatchesAndContinues ==
  /\ [][(RenameFailing /\ j < compiler.n_insns) =>
           /\ pc' = "rewrite_vars" /\ j' = j + 1
           /\ compiler'.error
           /\ compiler'.result = ORC_COMPILE_RESULT_UNKNOWN_PARSE
           /\ InsnProcessed(compiler', j)]_vars
  /\ [](RenameFailing =>
           /\ compiler.result = ORC_COMPILE_RESULT_UNKNOWN_PARSE
           /\ \A i \in 0..(j - 1) : InsnProcessed(compiler, i))
  /\ [][(RenameFailing /\ j = compiler.n_insns) => (pc' = "error" /\ FailedAt("rewrite_vars")')]_vars
  /\ [](FailedAt("rewrite_vars") =>
           /\ Len(steps) = 3
           /\ pc \in {"error", "done"}
           /\ Done => ret = ORC_COMPILE_RESULT_UNKNOWN_PARSE)
  /\ [](FailedAt("check_sizes") =>
           /\ Len(steps) = 1
           /\ compiler = [CheckSizesInput EXCEPT !.error = TRUE,
                                                 !.result = ORC_COMPILE_RESULT_UNKNOWN_PARSE])
  /\ [](FailedAt("assign_rules") =>
           /\ Len(steps) = 2
           /\ Ruleless # {}
           /\ \A i \in 0..(orig.n_insns - 1) :
                 compiler.insns[i].rule =
                    IF i <= Min(Ruleless) THEN target.rules[orig.insns[i].opcode] ELSE NULL
           /\ compiler = [CheckSizesInput EXCEPT !.error = TRUE,
                                                 !.result = ORC_COMPILE_RESULT_UNKNOWN_COMPILE,
                                                 !.insns = compiler.insns])

\* rewrite_vars ended with an error latched at its first instruction and a
\* Temp renamed at a later one
C23_Witness ==
  /\ RenameFailing /\ j = compiler.n_insns /\ j > 1
  /\ orc_compiler_rewrite_vars(CheckSizesInput, 0).error
  /\ \E i \in 1..(j - 1) : compiler.insns[i].dest_args[0] \in DupSlots(compiler)

-----------------------------------------------------------------------------
(* A fatal result stays *)

\* the context holds the fatal result code
ParseRecorded(c) == c.result = ORC_COMPILE_RESULT_UNKNOWN_PARSE

-----------------------------------------------------------------------------
(* Canonical constants *)

\* the low 8 bits of v in all four bytes, the low 16 bits of v in both halves
Replicate8(v) == Int32((v.lo % 256) * 257, (v.lo % 256) * 257)
Replicate16(v) == Int32(v.lo, v.lo)

\* a call for (size, v) and a call for (4, w) on context c use the same
\* entry and leave the same pool
SameEntry(c, size, v, w) ==
  LET a == orc_compiler_get_constant(c, size, v)
      b == orc_compiler_get_constant(c, 4, w)
  IN  /\ a.i = b.i
      /\ a.c.constants = b.c.constants
      /\ a.c.n_constants = b.c.n_constants

(* C24: on every context, a call of get_constant with size 1 uses the     *)
(* entry a call with size 4 and the low byte replicated four times uses,  *)
(* a call with size 2 the entry of size 4 and the low half replicated     *)
(* twice, and a call with size 4 looks its value up unchanged.            *)
C24_Canonicalization ==
  /\ \A v \in ConstValues :
        /\ SameEntry(compiler, 1, v, Replicate8(v))
        /\ SameEntry(compiler, 2, v, Replicate16(v))
        /\ orc_compiler_get_constant(compiler, 4, v).c.constants[
              orc_compiler_get_constant(compiler, 4, v).i].value = v
  /\ \A k \in 1..Len(steps) :
        compiler.constants[steps[k].i].value =
           CASE steps[k].size = 1 -> Replicate8(steps[k].value)
             [] steps[k].size = 2 -> Replicate16(steps[k].value)
             [] OTHER -> steps[k].value

\* a call with size 1 and a value with the sign bit of the byte set, then a
\* call with size 4 and the replicated value, met in one entry
C24_Witness ==
  /\ Len(steps) = 2
  /\ steps[1].size = 1 /\ steps[1].value = Int32(4660, 32897)
  /\ steps[2].size = 4 /\ steps[2].value = Int32(33153, 33153)
  /\ steps[1].i = steps[2].i
  /\ compiler.n_constants = 1

-----------------------------------------------------------------------------
(* Entries of the constant pool *)

\* the canonicalized value a recorded call asked for
RequestedBy(call) ==
  CASE call.size = 1 -> Replicate8(call.value)
    [] call.size = 2 -> Replicate16(call.value)
    [] OTHER -> call.value

Requested(k) == RequestedBy(steps[k])

PoolEntries == 0..(compiler.n_constants - 1)

\* the recorded call, made on context c, returned reg: the register of its
\* entry, or the scratch register after a load of the value into it
ReturnedAsClaimed(c, call, reg) ==
  LET before == {x \in 0..(c.n_constants - 1) : c.constants[x].value = RequestedBy(call)}
  IN  IF before # {} /\ \A x \in before : c.constants[x].alloc_reg # 0
      THEN /\ \E x \in before : reg = c.constants[x].alloc_reg
           /\ call.load = NoLoad
      ELSE /\ reg = c.tmpreg
           /\ call.load = orc_compiler_load_constant(c.tmpreg, call.size, RequestedBy(call))

(* C26: after any sequence of calls of get_constant no two entries of the  *)
(* pool hold the same value, n_constants is the number of distinct         *)
(* canonicalized values asked for, the use_count of an entry is the        *)
(* number of calls that asked for its value, and a call returns the        *)
(* entry's alloc_reg if that is not 0 and otherwise loads the value into   *)
(* tmpreg and returns tmpreg.                                              *)
C26_PoolEntries ==
  /\ [](/\ DOMAIN compiler.constants = PoolEntries
        /\ \A x, y \in PoolEntries :
              x # y => compiler.constants[x].value # compiler.constants[y].value
        /\ compiler.n_constants = Cardinality({Requested(k) : k \in 1..Len(steps)})
        /\ \A x \in PoolEntries :
              compiler.constants[x].use_count =
                 Cardinality({k \in 1..Len(steps) : Requested(k) = compiler.constants[x].value}))
  /\ [][Len(steps') > Len(steps) =>
          ReturnedAsClaimed(compiler, steps'[Len(steps')], ret')]_vars

\* two calls with different sizes met in one entry, which had a register
\* of its own at the second call
C26_Witness ==
  /\ Len(steps) = 2
  /\ steps[1].size # steps[2].size
  /\ compiler.n_constants = 1
  /\ compiler.constants[0].use_count = 2
  /\ compiler.constants[0].alloc_reg # 0
  /\ steps[1].load.called /\ ~steps[2].load.called
  /\ ret = compiler.constants[0].alloc_reg

====
